---- MODULE Spec2Model ----
(***************************************************************************)
(* A model of the retrieval core of Document-Intelligent-AI:               *)
(*   - TextChunker (src/AIDocs/src/chunking/chunker.py)                    *)
(*   - HybridRetriever (src/AIDocs/src/qa_pipeline/retriever.py)           *)
(*   - QueryExpander, ChromaManager, EmbeddingGenerator, AnswerGenerator   *)
(*     and RAGPipeline (src/AIDocs/src/main.py)                            *)
(* A Python str is a sequence of one-character strings, a list is a        *)
(* sequence, a dict with fixed keys is a record.                           *)
(***************************************************************************)
EXTENDS Integers, Sequences, FiniteSets, TLC

(***************************************************************************)
(* Bounds of the model.                                                    *)
(***************************************************************************)
MaxTextLen == 6
MaxChunkSize == 2
MaxOverlap == 2
MaxMinChunk == 3
MaxPages == 2
MaxResults == 3
MaxNResults == 2
MaxTopK == 2
MaxVariations == 3
MaxTexts == 3
MaxDimension == 2
MaxBatchSize == 2
MaxCalls == 4
MaxPaths == 3
MaxDocChunks == 3

(***************************************************************************)
(* Characters.  \s of the regular expression and of str.split / str.strip  *)
(* is the whitespace class; [.!?] is the sentence-terminal class.          *)
(***************************************************************************)
Whitespace == {" ", "\n"}
Terminals == {".", "!", "?"}
Chars == {"a", ".", " "}

Texts(n) == UNION {[1..k -> Chars] : k \in 0..n}

Min(a, b) == IF a < b THEN a ELSE b
Max(a, b) == IF a > b THEN a ELSE b

(***************************************************************************)
(* Python string primitives.                                               *)
(***************************************************************************)
RECURSIVE lstrip(_)
lstrip(s) ==
    IF s # <<>> /\ Head(s) \in Whitespace THEN lstrip(Tail(s)) ELSE s

RECURSIVE rstrip(_)
rstrip(s) ==
    IF s # <<>> /\ s[Len(s)] \in Whitespace
    THEN rstrip(SubSeq(s, 1, Len(s) - 1))
    ELSE s

\* str.strip()
strip(s) == rstrip(lstrip(s))

\* index of the first whitespace character of s, Len(s) + 1 when there is none
RECURSIVE first_space(_, _)
first_space(s, i) ==
    IF i > Len(s) \/ s[i] \in Whitespace THEN i ELSE first_space(s, i + 1)

\* str.split() with no argument: the maximal runs of non-whitespace
RECURSIVE split(_)
split(s) ==
    LET t == lstrip(s)
        n == first_space(t, 1)
    IN  IF t = <<>> THEN <<>>
        ELSE <<SubSeq(t, 1, n - 1)>> \o split(SubSeq(t, n, Len(t)))

\* ''.join(words): the separator forgotten
RECURSIVE join_nosep(_)
join_nosep(words) ==
    IF words = <<>> THEN <<>> ELSE words[1] \o join_nosep(Tail(words))

\* ' '.join(words)
RECURSIVE join(_)
join(words) ==
    IF words = <<>> THEN <<>>
    ELSE IF Len(words) = 1 THEN words[1]
    ELSE words[1] \o <<" ">> \o join(Tail(words))

\* lst[-(n - 1):]: one word short
slice_last_short(lst, n) ==
    SubSeq(lst, Max(Len(lst) - n + 1, 0) + 1, Len(lst))

\* lst[-n:] for n >= 0: Python adds len(lst) to a negative start and clamps
\* it at 0; -0 is 0, so lst[-0:] is the whole list.
slice_last(lst, n) ==
    LET start == IF n > 0 THEN Max(Len(lst) - n, 0) ELSE 0
    IN  SubSeq(lst, start + 1, Len(lst))

\* position of the first match of (?<=[.!?])\s+ in s at or after i,
\* Len(s) + 1 when there is none
RECURSIVE boundary(_, _)
boundary(s, i) ==
    IF i > Len(s) THEN i
    ELSE IF i > 1 /\ s[i] \in Whitespace /\ s[i - 1] \in Terminals THEN i
    ELSE boundary(s, i + 1)

\* re.split(r'(?<=[.!?])\s+', s): the pieces between the matches, empty
\* pieces included
RECURSIVE re_split(_)
re_split(s) ==
    LET b == boundary(s, 1)
    IN  IF b > Len(s) THEN <<s>>
        ELSE <<SubSeq(s, 1, b - 1)>> \o re_split(lstrip(SubSeq(s, b, Len(s))))

RECURSIVE keep_nonblank(_)
keep_nonblank(pieces) ==
    IF pieces = <<>> THEN <<>>
    ELSE IF strip(Head(pieces)) # <<>>
         THEN <<strip(Head(pieces))>> \o keep_nonblank(Tail(pieces))
         ELSE keep_nonblank(Tail(pieces))

(***************************************************************************)
(* TextChunker                                                             *)
(***************************************************************************)
count_words(text) == Len(split(text))

split_into_sentences(text) == keep_nonblank(re_split(text))

\* metadata or {}
NoneValue == [py |-> "None"]
\* an optional int argument: None is the empty tuple, the int n is <<n>>
NoInt == <<>>
OptionalInts(lo, hi) == {NoInt} \cup {<<n>> : n \in lo..hi}
EmptyDict == [py |-> "{}"]
metadata_or_empty(metadata) ==
    IF metadata = NoneValue \/ metadata = EmptyDict THEN EmptyDict ELSE metadata

\* the dict appended to chunks at lines 76-81 and 97-102
new_chunk(index, words, count, metadata) ==
    [chunk_id |-> index,
     text |-> join(words),
     word_count |-> count,
     metadata |-> metadata_or_empty(metadata)]

\* line 73 without "and current_chunk"
must_seal_any_buffer(count, sentence_word_count, buffer, size) ==
    count + sentence_word_count > size

\* line 73 without the pending sentence's word count
must_seal_ignores_sentence(count, sentence_word_count, buffer, size) ==
    count > size /\ buffer # <<>>

\* line 73
must_seal(count, sentence_word_count, buffer, size) ==
    count + sentence_word_count > size /\ buffer # <<>>

\* lines 86-87 keeping the first N words, current_chunk[:N]
overlap_seed_first(buffer, overlap) ==
    split(join(SubSeq(buffer, 1, Min(overlap, Len(buffer)))))

\* lines 86-87
overlap_seed(buffer, overlap) ==
    LET overlap_text == IF Len(buffer) > overlap
                        THEN join(slice_last(buffer, overlap))
                        ELSE join(buffer)
    IN  split(overlap_text)

\* line 95 with > for >=
keep_final_strict(buffer, count, min_size) ==
    buffer # <<>> /\ count > min_size

\* line 95
keep_final(buffer, count, min_size) ==
    buffer # <<>> /\ count >= min_size

\* lines 146-147 with enumerate(all_chunks, 1)
reindex_from_one(all, i) ==
    [k \in 1..Len(all) |-> [all[k] EXCEPT !.chunk_id = k]]

\* lines 146-147
RECURSIVE reindex(_, _)
reindex(all, i) ==
    IF i > Len(all) THEN all
    ELSE reindex([all EXCEPT ![i].chunk_id = i - 1], i + 1)

(***************************************************************************)
(* Numbers.  Scores, weights, distances and similarities are Python floats;*)
(* they are kept here as exact fractions [num, den] in lowest terms with a  *)
(* positive denominator.                                                   *)
(***************************************************************************)
RECURSIVE gcd(_, _)
gcd(a, b) == IF b = 0 THEN a ELSE gcd(b, a % b)

Rat(n, d) ==
    LET g == gcd(IF n < 0 THEN -n ELSE n, d)
    IN  [num |-> n \div g, den |-> d \div g]

Zero == Rat(0, 1)
One == Rat(1, 1)

RatAdd(a, b) == Rat(a.num * b.den + b.num * a.den, a.den * b.den)
RatSub(a, b) == Rat(a.num * b.den - b.num * a.den, a.den * b.den)
RatMul(a, b) == Rat(a.num * b.num, a.den * b.den)
\* i / n for integers i >= 0 and n > 0
RatDiv(i, n) == Rat(i, n)
RatLess(a, b) == a.num * b.den < b.num * a.den
RatLeq(a, b) == a.num * b.den <= b.num * a.den

(***************************************************************************)
(* State.                                                                  *)
(*   pc, mode                    position in the running call, and which   *)
(*                               entry point the caller invoked            *)
(*   chunk_size_words, overlap_words, min_chunk_size                       *)
(*                               TextChunker's configuration (lines 19-21) *)
(*   text, metadata              arguments of create_chunks                *)
(*   sentences, sent_i           the list iterated at line 68, and the     *)
(*                               position of the for loop in it            *)
(*   chunks, current_chunk, current_word_count, chunk_index                *)
(*                               locals of create_chunks (lines 63-66)     *)
(*   pages, doc_metadata         arguments of chunk_document_pages         *)
(*   page_i, all_chunks          its loop position and local (line 118)    *)
(*   ret                         the value returned to the caller          *)
(*   results                     argument of deduplicate_results           *)
(*   res_i, seen_texts, unique_results                                     *)
(*                               its loop position and locals (45-46)      *)
(*   texts, dimension, batch_size, batch_i, batch, batch_embeddings,       *)
(*   embeddings                  argument, settings and locals of          *)
(*                               generate_embeddings_batch                 *)
(*   collection, uuids, add_batch_size, add_i                              *)
(*                               the stored entries, the uuid4 values      *)
(*                               drawn, and the batch loop of add_chunks   *)
(*   pdf_paths, path_i, pdf_path, files                                    *)
(*                               arguments and loop position of the        *)
(*                               pipeline calls and directory sweeps       *)
(*   failed, calls, reported, stranded                                     *)
(*                               what happened so far: items that raised,  *)
(*                               calls made, chunk counts reported, chunks *)
(*                               stored by calls that raised               *)
(* text, chunks, results and all_chunks are also the locals of that name   *)
(* in generate_embeddings_batch, process_pdf, process_multiple_pdfs and    *)
(* the directory sweeps.                                                   *)
(***************************************************************************)
VARIABLES pc, mode, chunk_size_words, overlap_words, min_chunk_size,
          text, metadata, sentences, sent_i,
          chunks, current_chunk, current_word_count, chunk_index,
          pages, doc_metadata, page_i, all_chunks, ret,
          results, res_i, seen_texts, unique_results,
          n_results, semantic_weight, keyword_weight,
          semantic_results, keyword_results, result_scores, ranked_log,
          top_k, self_top_k, similarity_threshold, use_hybrid,
          query_variations, var_i, all_results, limit_k,
          query, enabled, min_variations, max_variations, num_variations, generation,
          texts, dimension, batch_size, batch_i, batch, batch_embeddings, embeddings,
          collection, uuids, add_batch_size, add_i, pdf_paths, path_i, pdf_path,
          files, failed, calls, reported, stranded

config_vars == <<chunk_size_words, overlap_words, min_chunk_size>>
create_vars == <<text, metadata, sentences, sent_i,
                 chunks, current_chunk, current_word_count, chunk_index>>
loop_vars == <<sentences, sent_i, current_chunk, current_word_count, chunk_index>>
page_vars == <<pages, doc_metadata, page_i, all_chunks>>
chunker_vars == <<pc, mode, config_vars, create_vars, page_vars, ret>>
dedup_vars == <<results, res_i, seen_texts, unique_results>>
weight_vars == <<semantic_weight, keyword_weight>>
index_vars == <<n_results, weight_vars, semantic_results, keyword_results, result_scores,
                ranked_log>>
retrieve_config == <<top_k, self_top_k, similarity_threshold, use_hybrid>>
retrieve_vars == <<retrieve_config, query_variations, var_i, all_results, limit_k>>
expander_config == <<query, enabled, min_variations, max_variations, num_variations>>
expander_vars == <<expander_config, generation>>
retriever_vars == <<dedup_vars, index_vars, retrieve_vars, expander_vars>>
embed_vars == <<texts, dimension, batch_size, batch_i, batch, batch_embeddings, embeddings>>
store_vars == <<collection, uuids, add_batch_size, add_i>>
pipeline_vars == <<pdf_paths, path_i, pdf_path, files, failed, calls, reported, stranded>>
service_vars == <<embed_vars, store_vars, pipeline_vars>>
vars == <<chunker_vars, retriever_vars, service_vars>>

(***************************************************************************)
(* Inputs.                                                                 *)
(***************************************************************************)
\* page texts handed to chunk_document_pages: empty, whitespace only, one
\* sentence, two sentences, three sentences with a two-word one
PageTexts ==
    { <<>>,
      <<" ">>,
      <<"a", ".">>,
      <<"a", ".", " ", "a">>,
      <<"a", " ", "a", ".", " ", "a", "?", " ", "a", ".">> }

\* the page dicts PDFExtractor produces: page_number counts from 1
page_list(page_texts) ==
    [i \in 1..Len(page_texts) |->
        [page_number |-> i, text |-> page_texts[i], method |-> "pdfplumber"]]

PageLists == {page_list(t) : t \in UNION {[1..k -> PageTexts] : k \in 0..MaxPages}}

DocMetadata == [title |-> "T", author |-> "U", filename |-> "f.pdf"]

\* fifteen one-word sentences, each ending in '.'
ScenarioWords ==
    <<"a", "b", "c", "d", "e", "f", "g", "h", "i", "j", "k", "l", "m", "n", "o">>
RECURSIVE scenario_text(_)
scenario_text(i) ==
    IF i > Len(ScenarioWords) THEN <<>>
    ELSE <<ScenarioWords[i], ".">>
         \o (IF i < Len(ScenarioWords) THEN <<" ">> ELSE <<>>)
         \o scenario_text(i + 1)
ScenarioText == scenario_text(1)

ConfigInit ==
    /\ chunk_size_words \in 1..MaxChunkSize
    /\ overlap_words \in 0..MaxOverlap
    /\ min_chunk_size \in 0..MaxMinChunk

LocalsInit ==
    /\ sentences = <<>>
    /\ sent_i = 1
    /\ chunks = <<>>
    /\ current_chunk = <<>>
    /\ current_word_count = 0
    /\ chunk_index = 0
    /\ page_i = 1
    /\ all_chunks = <<>>
    /\ ret = <<>>

\* create_chunks(text) called directly
InitCreate ==
    /\ mode = "create_chunks"
    /\ pc = "create_chunks"
    /\ ConfigInit
    /\ text \in Texts(MaxTextLen)
    /\ metadata = NoneValue
    /\ pages = <<>>
    /\ doc_metadata = NoneValue
    /\ LocalsInit

\* create_chunks(text) called with the configuration and input of the
\* scenario of section 8
InitScenario ==
    /\ mode = "create_chunks"
    /\ pc = "create_chunks"
    /\ chunk_size_words = 10
    /\ overlap_words = 3
    /\ min_chunk_size = 5
    /\ text = ScenarioText
    /\ metadata = NoneValue
    /\ pages = <<>>
    /\ doc_metadata = NoneValue
    /\ LocalsInit

\* chunk_document_pages(pages, doc_metadata)
InitPages ==
    /\ mode = "chunk_document_pages"
    /\ pc = "for_page"
    /\ ConfigInit
    /\ pages \in PageLists
    /\ doc_metadata \in {NoneValue, DocMetadata}
    /\ text = <<>>
    /\ metadata = NoneValue
    /\ LocalsInit

\* no deduplicate_results call is running
DedupIdle ==
    /\ results = <<>>
    /\ res_i = 1
    /\ seen_texts = {}
    /\ unique_results = <<>>

\* no search is running; the weights are the defaults of hybrid_search
IndexIdle ==
    /\ n_results = 8
    /\ semantic_weight = Rat(7, 10)
    /\ keyword_weight = Rat(3, 10)
    /\ semantic_results = <<>>
    /\ keyword_results = NoneValue
    /\ result_scores = <<>>
    /\ ranked_log = <<>>

\* no retrieve call is running; the settings are the defaults of the retriever
RetrieveIdle ==
    /\ top_k = NoInt
    /\ self_top_k = 8
    /\ similarity_threshold = Rat(3, 10)
    /\ use_hybrid = TRUE
    /\ query_variations = <<>>
    /\ var_i = 1
    /\ all_results = <<>>
    /\ limit_k = 8

\* no expand_query call is running; the settings are the defaults of the expander
ExpanderIdle ==
    /\ query = <<>>
    /\ enabled = TRUE
    /\ min_variations = 3
    /\ max_variations = 7
    /\ num_variations = NoInt
    /\ generation = NoneValue

\* no embedding call is running; the settings are the defaults of the generator
EmbedIdle ==
    /\ texts = <<>>
    /\ dimension = 768
    /\ batch_size = 100
    /\ batch_i = 0
    /\ batch = <<>>
    /\ batch_embeddings = <<>>
    /\ embeddings = <<>>

\* an empty collection, no add_chunks call running, the default batch size
StoreIdle ==
    /\ collection = <<>>
    /\ uuids = 0
    /\ add_batch_size = 100
    /\ add_i = 0

\* no pipeline call is running
PipelineIdle ==
    /\ pdf_paths = <<>>
    /\ path_i = 1
    /\ pdf_path = <<>>
    /\ files = <<>>
    /\ failed = {}
    /\ calls = 0
    /\ reported = 0
    /\ stranded = 0

ServiceIdle ==
    /\ EmbedIdle
    /\ StoreIdle
    /\ PipelineIdle

InitChunker ==
    /\ InitCreate \/ InitScenario \/ InitPages
    /\ DedupIdle
    /\ IndexIdle
    /\ RetrieveIdle
    /\ ExpanderIdle
    /\ ServiceIdle

(***************************************************************************)
(* create_chunks                                                           *)
(***************************************************************************)
\* lines 57-66 with the early return handing back one empty chunk
create_chunks_enter_blank_chunk ==
    /\ pc = "create_chunks"
    /\ IF strip(text) = <<>>
       THEN /\ chunks' = <<new_chunk(0, <<>>, 0, metadata)>>
            /\ pc' = "return"
            /\ UNCHANGED loop_vars
       ELSE /\ sentences' = split_into_sentences(text)
            /\ sent_i' = 1
            /\ chunks' = <<>>
            /\ current_chunk' = <<>>
            /\ current_word_count' = 0
            /\ chunk_index' = 0
            /\ pc' = "for_sentence"
    /\ UNCHANGED <<retriever_vars, mode, config_vars, service_vars, text, metadata, page_vars, ret>>

\* lines 57-66: the early return on blank text, else the sentence split and
\* the initial locals
create_chunks_enter ==
    /\ pc = "create_chunks"
    /\ IF strip(text) = <<>>
       THEN /\ chunks' = <<>>
            /\ pc' = "return"
            /\ UNCHANGED loop_vars
       ELSE /\ sentences' = split_into_sentences(text)
            /\ sent_i' = 1
            /\ chunks' = <<>>
            /\ current_chunk' = <<>>
            /\ current_word_count' = 0
            /\ chunk_index' = 0
            /\ pc' = "for_sentence"
    /\ UNCHANGED <<retriever_vars, mode, config_vars, service_vars, text, metadata, page_vars, ret>>

\* lines 68-92 with min_chunk_size applied to the sealed buffer too
for_sentence_min_size ==
    /\ pc = "for_sentence"
    /\ sent_i <= Len(sentences)
    /\ LET sentence_words == split(sentences[sent_i])
           sentence_word_count == Len(sentence_words)
           seal == must_seal(current_word_count, sentence_word_count,
                             current_chunk, chunk_size_words)
           seed == overlap_seed(current_chunk, overlap_words)
       IN  /\ chunks' = IF seal /\ current_word_count >= min_chunk_size
                        THEN Append(chunks, new_chunk(chunk_index, current_chunk,
                                                      current_word_count, metadata))
                        ELSE chunks
           /\ chunk_index' = IF seal THEN chunk_index + 1 ELSE chunk_index
           /\ current_chunk' = (IF seal THEN seed ELSE current_chunk)
                               \o sentence_words
           /\ current_word_count' = (IF seal THEN Len(seed) ELSE current_word_count)
                                    + sentence_word_count
    /\ sent_i' = sent_i + 1
    /\ UNCHANGED <<retriever_vars, pc, mode, config_vars, service_vars, text, metadata, sentences, page_vars, ret>>

\* lines 68-92: one iteration of the for loop
for_sentence ==
    /\ pc = "for_sentence"
    /\ sent_i <= Len(sentences)
    /\ LET sentence_words == split(sentences[sent_i])
           sentence_word_count == Len(sentence_words)
           seal == must_seal(current_word_count, sentence_word_count,
                             current_chunk, chunk_size_words)
           seed == overlap_seed(current_chunk, overlap_words)
       IN  /\ chunks' = IF seal
                        THEN Append(chunks, new_chunk(chunk_index, current_chunk,
                                                      current_word_count, metadata))
                        ELSE chunks
           /\ chunk_index' = IF seal THEN chunk_index + 1 ELSE chunk_index
           /\ current_chunk' = (IF seal THEN seed ELSE current_chunk)
                               \o sentence_words
           /\ current_word_count' = (IF seal THEN Len(seed) ELSE current_word_count)
                                    + sentence_word_count
    /\ sent_i' = sent_i + 1
    /\ UNCHANGED <<retriever_vars, pc, mode, config_vars, service_vars, text, metadata, sentences, page_vars, ret>>

\* lines 94-104: the loop is exhausted; the final chunk
final_chunk ==
    /\ pc = "for_sentence"
    /\ sent_i > Len(sentences)
    /\ chunks' = IF keep_final(current_chunk, current_word_count, min_chunk_size)
                 THEN Append(chunks, new_chunk(chunk_index, current_chunk,
                                               current_word_count, metadata))
                 ELSE chunks
    /\ pc' = "return"
    /\ UNCHANGED <<retriever_vars, mode, config_vars, service_vars, text, metadata, loop_vars, page_vars, ret>>

\* lines 58, 105: return to the direct caller
create_chunks_return ==
    /\ pc = "return"
    /\ mode = "create_chunks"
    /\ ret' = chunks
    /\ pc' = "done"
    /\ UNCHANGED <<retriever_vars, mode, config_vars, service_vars, create_vars, page_vars>>

(***************************************************************************)
(* chunk_document_pages                                                    *)
(***************************************************************************)
\* lines 128-139
chunk_metadata(page, doc) ==
    IF doc = NoneValue
    THEN [page_number |-> page.page_number,
          extraction_method |-> page.method]
    ELSE [page_number |-> page.page_number,
          extraction_method |-> page.method,
          document_title |-> doc.title,
          document_author |-> doc.author,
          filename |-> doc.filename]

\* lines 120-142: one iteration of the page loop up to the call
for_page ==
    /\ pc = "for_page"
    /\ page_i <= Len(pages)
    /\ IF strip(pages[page_i].text) = <<>>
       THEN /\ page_i' = page_i + 1
            /\ UNCHANGED <<pc, text, metadata>>
       ELSE /\ text' = pages[page_i].text
            /\ metadata' = chunk_metadata(pages[page_i], doc_metadata)
            /\ pc' = "create_chunks"
            /\ UNCHANGED page_i
    /\ UNCHANGED <<retriever_vars, mode, config_vars, service_vars, sentences, sent_i, chunks, current_chunk,
                   current_word_count, chunk_index, pages, doc_metadata,
                   all_chunks, ret>>

\* lines 142-143: create_chunks returns into the page loop
extend_all_chunks ==
    /\ pc = "return"
    /\ mode = "chunk_document_pages"
    /\ all_chunks' = all_chunks \o chunks
    /\ page_i' = page_i + 1
    /\ pc' = "for_page"
    /\ UNCHANGED <<retriever_vars, mode, config_vars, service_vars, create_vars, pages, doc_metadata, ret>>

\* lines 145-150: the page loop is exhausted
reindex_return ==
    /\ pc = "for_page"
    /\ page_i > Len(pages)
    /\ all_chunks' = reindex(all_chunks, 1)
    /\ ret' = all_chunks'
    /\ pc' = "done"
    /\ UNCHANGED <<retriever_vars, mode, config_vars, service_vars, create_vars, pages, doc_metadata, page_i>>

NextChunker ==
    \/ create_chunks_enter
    \/ for_sentence
    \/ final_chunk
    \/ create_chunks_return
    \/ for_page
    \/ extend_all_chunks
    \/ reindex_return

SpecChunker == InitChunker /\ [][NextChunker]_vars

(***************************************************************************)
(* HybridRetriever.deduplicate_results                                     *)
(***************************************************************************)
\* line 51: the length of the fingerprint
FingerprintLen == 100

\* text[:n]
prefix(s, n) == SubSeq(s, 1, Min(n, Len(s)))

\* line 51 with the whole text as the fingerprint
fingerprint_whole(s) == s

\* line 51
fingerprint(s) == prefix(s, FingerprintLen)

\* the chunker's settings are its defaults and its locals are empty
ChunkerAtRest ==
    /\ chunk_size_words = 600
    /\ overlap_words = 75
    /\ min_chunk_size = 100
    /\ metadata = NoneValue
    /\ pages = <<>>
    /\ doc_metadata = NoneValue
    /\ LocalsInit

\* no chunker call is running
ChunkerIdle ==
    /\ text = <<>>
    /\ ChunkerAtRest

filler(n) == [i \in 1..n |-> "a"]

\* candidate texts: shorter than the fingerprint, exactly as long, two that
\* differ only after it, one that differs at its last character
CandidateTexts ==
    { filler(1),
      filler(FingerprintLen),
      filler(FingerprintLen) \o <<"x">>,
      filler(FingerprintLen) \o <<"y">>,
      filler(FingerprintLen - 1) \o <<"b", "x">> }

CandidateIds == {"id1", "id2"}

\* the result dicts of ChromaManager.search (chroma_manager.py 147-153)
Candidates ==
    { [id |-> i, text |-> t, metadata |-> [filename |-> i]] :
        i \in CandidateIds, t \in CandidateTexts }

ResultLists == UNION {[1..k -> Candidates] : k \in 0..MaxResults}

\* deduplicate_results(results), lines 45-46 done
InitDedup ==
    /\ mode = "deduplicate_results"
    /\ pc = "for_result"
    /\ results \in ResultLists
    /\ res_i = 1
    /\ seen_texts = {}
    /\ unique_results = <<>>
    /\ ChunkerIdle
    /\ IndexIdle
    /\ RetrieveIdle
    /\ ExpanderIdle
    /\ ServiceIdle

\* lines 48-55 with the kept candidate put in front of the list
for_result_prepend ==
    /\ pc = "for_result"
    /\ res_i <= Len(results)
    /\ LET result == results[res_i]
           fp == fingerprint(result.text)
       IN  IF fp \notin seen_texts
           THEN /\ seen_texts' = seen_texts \cup {fp}
                /\ unique_results' = <<result>> \o unique_results
           ELSE UNCHANGED <<seen_texts, unique_results>>
    /\ res_i' = res_i + 1
    /\ UNCHANGED <<config_vars, service_vars, create_vars, page_vars, mode, pc, ret, results,
                   index_vars, retrieve_vars, expander_vars>>

\* lines 48-55 with a later candidate taking the place of the one kept
for_result_keep_last ==
    /\ pc = "for_result"
    /\ res_i <= Len(results)
    /\ LET result == results[res_i]
           fp == fingerprint(result.text)
       IN  IF fp \notin seen_texts
           THEN /\ seen_texts' = seen_texts \cup {fp}
                /\ unique_results' = Append(unique_results, result)
           ELSE /\ unique_results' =
                      [i \in 1..Len(unique_results) |->
                          IF fingerprint(unique_results[i].text) = fp
                          THEN result ELSE unique_results[i]]
                /\ UNCHANGED seen_texts
    /\ res_i' = res_i + 1
    /\ UNCHANGED <<config_vars, service_vars, create_vars, page_vars, mode, pc, ret, results,
                   index_vars, retrieve_vars, expander_vars>>

\* lines 48-55: one iteration of the for loop
for_result ==
    /\ pc = "for_result"
    /\ res_i <= Len(results)
    /\ LET result == results[res_i]
           fp == fingerprint(result.text)
       IN  IF fp \notin seen_texts
           THEN /\ seen_texts' = seen_texts \cup {fp}
                /\ unique_results' = Append(unique_results, result)
           ELSE UNCHANGED <<seen_texts, unique_results>>
    /\ res_i' = res_i + 1
    /\ UNCHANGED <<config_vars, service_vars, create_vars, page_vars, mode, pc, ret, results,
                   index_vars, retrieve_vars, expander_vars>>

\* lines 57-60: the loop is exhausted
deduplicate_results_return ==
    /\ pc = "for_result"
    /\ res_i > Len(results)
    /\ mode \in {"deduplicate_results", "deduplicate_results_again"}
    /\ ret' = unique_results
    /\ pc' = "done"
    /\ UNCHANGED <<mode, config_vars, service_vars, create_vars, page_vars, retriever_vars>>

\* the caller hands the list it got back to deduplicate_results once more
\* (lines 45-46 of the second call)
deduplicate_results_again ==
    /\ pc = "done"
    /\ mode = "deduplicate_results"
    /\ mode' = "deduplicate_results_again"
    /\ pc' = "for_result"
    /\ results' = ret
    /\ res_i' = 1
    /\ seen_texts' = {}
    /\ unique_results' = <<>>
    /\ UNCHANGED <<config_vars, service_vars, create_vars, page_vars, ret,
                   index_vars, retrieve_vars, expander_vars>>

NextDedup ==
    \/ for_result
    \/ deduplicate_results_return
    \/ deduplicate_results_again

SpecDedup == InitDedup /\ [][NextDedup]_vars

(***************************************************************************)
(* ChromaManager.search and ChromaManager.hybrid_search                    *)
(***************************************************************************)
\* the chunks of the collection
IndexDocs == {"d1", "d2", "d3"}
\* the chunks the index finds for the queries of retrieve
RetrieveDocs == {"d1", "d2"}

doc_text(id) == <<id>>
doc_metadata_of(id) == [filename |-> id]

\* the distances the index reports: similarity 1/2 and 1/5
Distances == {Rat(1, 2), Rat(4, 5)}

\* the weights of the settings, and equal weights
WeightPairs == {<<Rat(7, 10), Rat(3, 10)>>, <<Rat(1, 2), Rat(1, 2)>>}

\* the hits of one collection.query call: at most n of the given documents,
\* none twice, nearest first
Hits(docs, n) ==
    { h \in UNION {[1..m -> docs \X Distances] : m \in 0..Min(n, Cardinality(docs))} :
        /\ \A i, j \in 1..Len(h) : i # j => h[i][1] # h[j][1]
        /\ \A i \in 1..(Len(h) - 1) : RatLeq(h[i][2], h[i + 1][2]) }

\* the dict collection.query returns for one query
query_result(h, with_distances) ==
    LET base == [ids |-> [i \in 1..Len(h) |-> h[i][1]],
                 documents |-> [i \in 1..Len(h) |-> doc_text(h[i][1])],
                 metadatas |-> [i \in 1..Len(h) |-> doc_metadata_of(h[i][1])]]
    IN  IF with_distances
        THEN [ids |-> base.ids, documents |-> base.documents,
              metadatas |-> base.metadatas,
              distances |-> [i \in 1..Len(h) |-> h[i][2]]]
        ELSE base

QueryResults(docs, n, flags) ==
    {query_result(h, f) : h \in Hits(docs, n), f \in flags}

\* lines 143-153: formatted_results
search_results(response) ==
    [i \in 1..Len(response.ids) |->
        [id |-> response.ids[i],
         text |-> response.documents[i],
         metadata |-> response.metadatas[i],
         distance |-> IF "distances" \in DOMAIN response
                      THEN response.distances[i] ELSE NoneValue,
         similarity |-> IF "distances" \in DOMAIN response
                        THEN RatSub(One, response.distances[i]) ELSE NoneValue]]

\* lines 196 and 205: 1 - (i / len(...)), i counting from zero
rank_score(i, n) == RatSub(One, RatDiv(i, n))

\* a dict is the sequence of its items in insertion order
dict_keys(d) == {d[i].key : i \in 1..Len(d)}
dict_get(d, key) == d[CHOOSE i \in 1..Len(d) : d[i].key = key].value
\* d[key] = value: a new key goes to the end, a known key keeps its place
dict_set(d, key, value) ==
    IF key \in dict_keys(d)
    THEN [i \in 1..Len(d) |-> IF d[i].key = key THEN [key |-> key, value |-> value] ELSE d[i]]
    ELSE Append(d, [key |-> key, value |-> value])
dict_values(d) == [i \in 1..Len(d) |-> d[i].value]

\* lines 193-200: the loop over semantic_results from its i-th element on
RECURSIVE score_semantic(_, _, _, _)
score_semantic(scores, sem, i, weight) ==
    IF i > Len(sem) THEN scores
    ELSE LET semantic_score == rank_score(i - 1, Len(sem))
         IN  score_semantic(
                 dict_set(scores, sem[i].id,
                          [result |-> sem[i], score |-> RatMul(semantic_score, weight)]),
                 sem, i + 1, weight)

\* lines 207-208 with the keyword score put in place of the semantic one
keyword_hit_replace(entry, contribution) ==
    [result |-> entry.result, score |-> contribution]

\* lines 207-208: the id is known, its score grows
keyword_hit(entry, contribution) ==
    [result |-> entry.result, score |-> RatAdd(entry.score, contribution)]

\* lines 210-218: the id is new, its result dict is built from the keyword
\* response
keyword_only(kw, i, contribution) ==
    [result |-> [id |-> kw.ids[i],
                 text |-> kw.documents[i],
                 metadata |-> kw.metadatas[i],
                 distance |-> IF "distances" \in DOMAIN kw
                              THEN kw.distances[i] ELSE NoneValue],
     score |-> contribution]

\* lines 203-218: the loop over the keyword ids from the i-th on
RECURSIVE add_keyword_scores(_, _, _, _)
add_keyword_scores(scores, kw, i, weight) ==
    IF i > Len(kw.ids) THEN scores
    ELSE LET doc_id == kw.ids[i]
             keyword_score == rank_score(i - 1, Len(kw.ids))
             contribution == RatMul(keyword_score, weight)
         IN  add_keyword_scores(
                 dict_set(scores, doc_id,
                          IF doc_id \in dict_keys(scores)
                          THEN keyword_hit(dict_get(scores, doc_id), contribution)
                          ELSE keyword_only(kw, i, contribution)),
                 kw, i + 1, weight)

\* sorted(items, key, reverse=True) taking the smallest key first
sorted_ascending(items, keys) ==
    [p \in 1..Len(items) |->
        items[CHOOSE i \in 1..Len(items) :
                 p = 1 + Cardinality({j \in 1..Len(items) :
                                        \/ RatLess(keys[j], keys[i])
                                        \/ keys[j] = keys[i] /\ j < i})]]

\* sorted(items, key, reverse=True), keys[i] being the key of items[i]: the
\* sort is stable, items of equal key keep their order
sorted_reverse(items, keys) ==
    [p \in 1..Len(items) |->
        items[CHOOSE i \in 1..Len(items) :
                 p = 1 + Cardinality({j \in 1..Len(items) :
                                        \/ RatLess(keys[i], keys[j])
                                        \/ keys[j] = keys[i] /\ j < i})]]

\* lines 221-225
ranked_results(scores, n) ==
    LET values == dict_values(scores)
    IN  prefix(sorted_reverse(values, [i \in 1..Len(values) |-> values[i].score]), n)

\* where a call of search or hybrid_search returns to
index_return == IF mode = "retrieve" THEN "extend" ELSE "done"

\* search(query, n_results) or hybrid_search(query, n_results, semantic_weight,
\* keyword_weight) is called
InitIndex ==
    /\ mode \in {"search", "hybrid_search"}
    /\ pc = mode
    /\ n_results \in 1..MaxNResults
    /\ \E w \in WeightPairs : semantic_weight = w[1] /\ keyword_weight = w[2]
    /\ semantic_results = <<>>
    /\ keyword_results = NoneValue
    /\ result_scores = <<>>
    /\ ranked_log = <<>>
    /\ ret = <<>>
    /\ ChunkerIdle
    /\ DedupIdle
    /\ RetrieveIdle
    /\ ExpanderIdle
    /\ ServiceIdle

\* the hits an index call may give: any in a call of the index layer itself
IndexResults(n) ==
    IF mode = "retrieve"
    THEN QueryResults(RetrieveDocs, n, {TRUE})
    ELSE QueryResults(IndexDocs, n, {TRUE, FALSE})

\* lines 132-156: search, called by the user or at line 181 with
\* search_n = n_results * 2 (line 178)
search ==
    /\ pc \in {"search", "hybrid_search"}
    /\ \E response \in IndexResults(IF pc = "hybrid_search" THEN n_results * 2
                                    ELSE n_results) :
          LET formatted_results == search_results(response)
          IN  IF pc = "hybrid_search"
              THEN /\ semantic_results' = formatted_results
                   /\ pc' = "keyword_query"
                   /\ UNCHANGED ret
              ELSE /\ ret' = formatted_results
                   /\ pc' = index_return
                   /\ UNCHANGED semantic_results
    /\ UNCHANGED <<mode, config_vars, service_vars, create_vars, page_vars, dedup_vars,
                   n_results, weight_vars, keyword_results, result_scores, ranked_log,
                   retrieve_vars, expander_vars>>

\* lines 136-141 or 184-187: collection.query raises; neither search nor
\* hybrid_search nor the loop of retrieve_with_expansion (lines 98-109) has a
\* handler, so the exception leaves the running call
query_raises ==
    /\ pc \in {"search", "hybrid_search", "keyword_query"}
    /\ pc' = "raised"
    /\ UNCHANGED <<mode, config_vars, service_vars, create_vars, page_vars, ret, retriever_vars>>

\* lines 184-187
keyword_query ==
    /\ pc = "keyword_query"
    /\ keyword_results' \in IndexResults(n_results * 2)
    /\ pc' = "score"
    /\ UNCHANGED <<mode, config_vars, service_vars, create_vars, page_vars, ret, dedup_vars,
                   n_results, weight_vars, semantic_results, result_scores, ranked_log,
                   retrieve_vars, expander_vars>>

\* lines 190-218
score_results ==
    /\ pc = "score"
    /\ result_scores' =
          add_keyword_scores(
              score_semantic(<<>>, semantic_results, 1, semantic_weight),
              keyword_results, 1, keyword_weight)
    /\ pc' = "rank"
    /\ UNCHANGED <<mode, config_vars, service_vars, create_vars, page_vars, ret, dedup_vars,
                   n_results, weight_vars, semantic_results, keyword_results, ranked_log,
                   retrieve_vars, expander_vars>>

\* lines 221-231; ranked_log keeps the ranked_results of every call
rank_results ==
    /\ pc = "rank"
    /\ LET ranked == ranked_results(result_scores, n_results)
       IN  /\ ret' = [i \in 1..Len(ranked) |-> ranked[i].result]
           /\ ranked_log' = Append(ranked_log, ranked)
    /\ pc' = index_return
    /\ UNCHANGED <<mode, config_vars, service_vars, create_vars, page_vars, dedup_vars,
                   n_results, weight_vars, semantic_results, keyword_results,
                   result_scores, retrieve_vars, expander_vars>>

NextIndex ==
    \/ search
    \/ query_raises
    \/ keyword_query
    \/ score_results
    \/ rank_results

SpecIndex == InitIndex /\ [][NextIndex]_vars

(***************************************************************************)
(* QueryExpander.expand_query                                              *)
(***************************************************************************)
\* str.split(sep)
RECURSIVE split_on(_, _)
split_on(s, sep) ==
    IF \A i \in 1..Len(s) : s[i] # sep THEN <<s>>
    ELSE LET i == CHOOSE i \in 1..Len(s) : s[i] = sep /\ \A j \in 1..(i - 1) : s[j] # sep
         IN  <<SubSeq(s, 1, i - 1)>> \o split_on(SubSeq(s, i + 1, Len(s)), sep)

\* lst[:n]: a negative n counts from the end
slice_first(lst, n) ==
    IF n >= 0 THEN prefix(lst, n) ELSE prefix(lst, Max(Len(lst) + n, 0))

\* the generation call raised
Raised == [py |-> "Exception"]

\* the texts the generation service answers with: nothing, a line break, one
\* line, two lines with blanks and an empty line between, three lines
GenerationTexts ==
    { <<>>,
      <<"\n">>,
      <<"a">>,
      <<" ", "a", " ", "\n", "\n", "b">>,
      <<"a", "\n", "b", "\n", "c", "\n">> }

\* what the generation call comes back with
GenerationOutcomes == {Raised} \cup {[text |-> t] : t \in GenerationTexts}

Queries == {<<"q">>, <<" ", "q">>}

\* line 56 without the lower limit
clamp_max_only(n, lo, hi) == Min(n, hi)

\* line 56
clamp(n, lo, hi) == Max(lo, Min(n, hi))

\* line 82 with the original query left out
all_variations_without_query(q, variations, n) == slice_first(variations, n - 1)

\* line 82
all_variations(q, variations, n) == <<q>> \o slice_first(variations, n - 1)

\* lines 53-85 for the text the generation call returned
expanded(q, requested, lo, hi, response_text) ==
    LET n == clamp(IF requested = NoInt THEN hi ELSE requested[1], lo, hi)
        variations == keep_nonblank(split_on(strip(response_text), "\n"))
    IN  all_variations(q, variations, n)

\* expand_query(query, num_variations) is called
InitExpand ==
    /\ mode = "expand_query"
    /\ pc = "expand_query"
    /\ query \in Queries
    /\ enabled \in BOOLEAN
    /\ min_variations \in 1..MaxVariations
    /\ max_variations \in min_variations..MaxVariations
    /\ num_variations \in OptionalInts(0, MaxVariations + 1)
    /\ generation = NoneValue
    /\ ret = <<>>
    /\ ChunkerIdle
    /\ DedupIdle
    /\ IndexIdle
    /\ RetrieveIdle
    /\ ServiceIdle

\* where expand_query returns to: lines 93-97 of the retriever, the frame of
\* expand_query being gone, or the caller
expand_return(variations) ==
    IF mode = "retrieve"
    THEN /\ query_variations' = variations
         /\ var_i' = 1
         /\ all_results' = <<>>
         /\ generation' = NoneValue
         /\ pc' = "for_variation"
         /\ UNCHANGED ret
    ELSE /\ ret' = variations
         /\ pc' = "done"
         /\ UNCHANGED <<query_variations, var_i, all_results, generation>>

\* lines 50-51
expand_query_disabled ==
    /\ pc = "expand_query"
    /\ ~enabled
    /\ expand_return(<<query>>)
    /\ UNCHANGED <<mode, config_vars, service_vars, create_vars, page_vars, dedup_vars, index_vars,
                   retrieve_config, limit_k, expander_config>>

\* lines 53-76: the generation call returns a text or raises
generate_content ==
    /\ pc = "expand_query"
    /\ enabled
    /\ generation' \in GenerationOutcomes
    /\ pc' = "generated"
    /\ UNCHANGED <<mode, config_vars, service_vars, create_vars, page_vars, ret, dedup_vars, index_vars,
                   retrieve_vars, expander_config>>

\* lines 78-89
expand_query_return ==
    /\ pc = "generated"
    /\ expand_return(IF generation = Raised
                     THEN <<query>>
                     ELSE expanded(query, num_variations, min_variations,
                                   max_variations, generation.text))
    /\ UNCHANGED <<mode, config_vars, service_vars, create_vars, page_vars, dedup_vars, index_vars,
                   retrieve_config, limit_k, expander_config>>

(***************************************************************************)
(* HybridRetriever.filter_by_threshold and retrieve_with_expansion         *)
(***************************************************************************)
Thresholds == {Zero, Rat(3, 10), Rat(1, 2)}

\* x or y for an optional integer x
falsy_or(x, y) == IF x = NoInt \/ x[1] = 0 THEN y ELSE x[1]

\* r.get('similarity', 1)
get_similarity_default_one(r) == IF "similarity" \in DOMAIN r THEN r.similarity ELSE One

\* r.get('similarity', 0)
get_similarity(r) == IF "similarity" \in DOMAIN r THEN r.similarity ELSE Zero

\* line 72 keeping the candidates at or below the threshold
filter_by_threshold_below(list, threshold) ==
    SelectSeq(list, LAMBDA r : RatLeq(get_similarity(r), threshold))

\* lines 72-77
filter_by_threshold(list, threshold) ==
    SelectSeq(list, LAMBDA r : RatLeq(threshold, get_similarity(r)))

\* lines 118-122 without the sort
sorted_results_unsorted(list, n) == prefix(list, n)

\* lines 118-122
sorted_results(list, n) ==
    prefix(sorted_reverse(list, [i \in 1..Len(list) |-> get_similarity(list[i])]), n)

\* retrieve(query, top_k) is called (lines 127-138)
InitRetrieve ==
    /\ mode = "retrieve"
    /\ pc = "retrieve"
    /\ top_k \in OptionalInts(0, MaxTopK)
    /\ self_top_k \in 1..MaxTopK
    /\ similarity_threshold \in Thresholds
    /\ use_hybrid \in BOOLEAN
    /\ query_variations = <<>>
    /\ var_i = 1
    /\ all_results = <<>>
    /\ limit_k = self_top_k
    /\ query = <<"q">>
    /\ enabled \in BOOLEAN
    /\ min_variations = 1
    /\ max_variations = 2
    /\ num_variations = NoInt
    /\ generation = NoneValue
    /\ ret = <<>>
    /\ ChunkerIdle
    /\ DedupIdle
    /\ IndexIdle
    /\ ServiceIdle

\* lines 90-93: k, and the call of expand_query
retrieve_with_expansion_enter ==
    /\ pc = "retrieve"
    /\ limit_k' = falsy_or(top_k, self_top_k)
    /\ pc' = "expand_query"
    /\ UNCHANGED <<mode, config_vars, service_vars, create_vars, page_vars, ret, dedup_vars, index_vars,
                   retrieve_config, query_variations, var_i, all_results, expander_vars>>

\* lines 98-107: the next variation is searched for
for_variation ==
    /\ pc = "for_variation"
    /\ var_i <= Len(query_variations)
    /\ n_results' = limit_k
    /\ pc' = IF use_hybrid THEN "hybrid_search" ELSE "search"
    /\ UNCHANGED <<mode, config_vars, service_vars, create_vars, page_vars, ret, dedup_vars,
                   weight_vars, semantic_results, keyword_results, result_scores,
                   ranked_log, retrieve_vars, expander_vars>>

\* line 109; the frame of the search call is gone
extend_all_results ==
    /\ pc = "extend"
    /\ all_results' = all_results \o ret
    /\ var_i' = var_i + 1
    /\ semantic_results' = <<>>
    /\ keyword_results' = NoneValue
    /\ result_scores' = <<>>
    /\ pc' = "for_variation"
    /\ UNCHANGED <<mode, config_vars, service_vars, create_vars, page_vars, ret, dedup_vars,
                   n_results, weight_vars, ranked_log, retrieve_config,
                   query_variations, limit_k, expander_vars>>

\* line 112 reached before the last variation is searched
deduplicate_all_results_early ==
    /\ pc = "for_variation"
    /\ var_i >= Len(query_variations)
    /\ results' = all_results
    /\ res_i' = 1
    /\ seen_texts' = {}
    /\ unique_results' = <<>>
    /\ pc' = "for_result"
    /\ UNCHANGED <<mode, config_vars, service_vars, create_vars, page_vars, ret, index_vars,
                   retrieve_vars, expander_vars>>

\* line 115 applied before line 112: the threshold filter runs first
deduplicate_all_results_filtered ==
    /\ pc = "for_variation"
    /\ var_i > Len(query_variations)
    /\ results' = filter_by_threshold(all_results, similarity_threshold)
    /\ res_i' = 1
    /\ seen_texts' = {}
    /\ unique_results' = <<>>
    /\ pc' = "for_result"
    /\ UNCHANGED <<mode, config_vars, service_vars, create_vars, page_vars, ret, index_vars,
                   retrieve_vars, expander_vars>>

\* line 112: the call of deduplicate_results
deduplicate_all_results ==
    /\ pc = "for_variation"
    /\ var_i > Len(query_variations)
    /\ results' = all_results
    /\ res_i' = 1
    /\ seen_texts' = {}
    /\ unique_results' = <<>>
    /\ pc' = "for_result"
    /\ UNCHANGED <<mode, config_vars, service_vars, create_vars, page_vars, ret, index_vars,
                   retrieve_vars, expander_vars>>

\* lines 115-125, the loop of deduplicate_results being exhausted
retrieve_with_expansion_return ==
    /\ pc = "for_result"
    /\ res_i > Len(results)
    /\ mode = "retrieve"
    /\ ret' = sorted_results(filter_by_threshold(unique_results, similarity_threshold),
                             limit_k)
    /\ pc' = "done"
    /\ UNCHANGED <<mode, config_vars, service_vars, create_vars, page_vars, retriever_vars>>

(***************************************************************************)
(* RAGPipeline.ask_question (src/AIDocs/src/main.py) and                   *)
(* AnswerGenerator.generate_answer                                         *)
(* (src/AIDocs/src/qa_pipeline/answer_generator.py).  ask_question takes   *)
(* over where retrieve returned: ret holds retrieved_chunks.              *)
(***************************************************************************)
\* main.py line 108
NothingFound == "I couldn't find any relevant information"

\* the texts the answering model returns
AnswerOutcomes == {Raised, [text |-> "answer"]}

\* answer_generator.py lines 74-83: metadata.get(key, 'Unknown')
get_or_unknown(m, key) == IF key \in DOMAIN m THEN m[key] ELSE "Unknown"

\* answer_generator.py lines 64-85
extract_citations(list) ==
    [i \in 1..Len(list) |->
        [source_number |-> i,
         document_title |-> get_or_unknown(list[i].metadata, "document_title"),
         page_number |-> get_or_unknown(list[i].metadata, "page_number"),
         filename |-> get_or_unknown(list[i].metadata, "filename"),
         similarity |-> get_similarity(list[i])]]

\* answer_generator.py lines 107-148
answer_result(question, list, outcome) ==
    IF outcome = Raised
    THEN [question |-> question, answer |-> "Error generating answer", citations |-> <<>>,
          num_sources |-> 0, error |-> "Exception"]
    ELSE [question |-> question, answer |-> outcome.text,
          citations |-> extract_citations(list),
          num_sources |-> Len(extract_citations(list))]

\* main.py lines 102-114 calling answer generation whatever retrieve returned
ask_question_always_answers ==
    /\ pc = "done"
    /\ mode = "retrieve"
    /\ ret = <<>>
    /\ mode' = "ask_question"
    /\ pc' = "generate_answer"
    /\ UNCHANGED <<ret, config_vars, service_vars, create_vars, page_vars, retriever_vars>>

\* main.py lines 102-111: retrieve returned nothing
ask_question_nothing_found ==
    /\ pc = "done"
    /\ mode = "retrieve"
    /\ ret = <<>>
    /\ mode' = "ask_question"
    /\ ret' = [question |-> query, answer |-> NothingFound, citations |-> <<>>,
               num_sources |-> 0]
    /\ pc' = "done"
    /\ UNCHANGED <<config_vars, service_vars, create_vars, page_vars, retriever_vars>>

\* main.py lines 102 and 114: retrieve returned chunks
ask_question_answer ==
    /\ pc = "done"
    /\ mode = "retrieve"
    /\ ret # <<>>
    /\ mode' = "ask_question"
    /\ pc' = "generate_answer"
    /\ UNCHANGED <<ret, config_vars, service_vars, create_vars, page_vars, retriever_vars>>

\* answer_generator.py lines 107-148, main.py line 116
generate_answer ==
    /\ pc = "generate_answer"
    /\ \E outcome \in AnswerOutcomes : ret' = answer_result(query, ret, outcome)
    /\ pc' = "done"
    /\ UNCHANGED <<mode, config_vars, service_vars, create_vars, page_vars, retriever_vars>>

NextRetrieve ==
    \/ retrieve_with_expansion_enter
    \/ expand_query_disabled
    \/ generate_content
    \/ expand_query_return
    \/ for_variation
    \/ search
    \/ query_raises
    \/ keyword_query
    \/ score_results
    \/ rank_results
    \/ extend_all_results
    \/ deduplicate_all_results
    \/ for_result
    \/ retrieve_with_expansion_return
    \/ ask_question_nothing_found
    \/ ask_question_answer
    \/ generate_answer

SpecRetrieve == (InitExpand \/ InitRetrieve) /\ [][NextRetrieve]_vars

(***************************************************************************)
(* EmbeddingGenerator.generate_embedding and generate_embeddings_batch     *)
(* (src/AIDocs/src/embeddings/embedding_generator.py).  A vector is a      *)
(* sequence of fractions.  failed records the positions in texts whose     *)
(* service call raised.                                                    *)
(***************************************************************************)
\* lines 45 and 58: [0.0] * self.dimension
zeros(d) == [k \in 1..d |-> Zero]

\* the texts handed to the generator: empty, blank, two with a word
EmbedTexts == {<<>>, <<" ">>, <<"a">>, <<"b">>}

EmbedTextLists == UNION {[1..n -> EmbedTexts] : n \in 0..MaxTexts}

\* the vector the service holds for a text, one value per text
service_embedding(s, d) == [k \in 1..d |-> IF s = <<"a">> THEN Rat(1, 2) ELSE One]

\* lines 49-53: genai.embed_content raises or answers with the vector
EmbedOutcomes(s, d) == {Raised, [embedding |-> service_embedding(s, d)]}

\* lines 43-58 with an empty list returned on failure
generate_embedding_empty_on_failure(s, d, outcome) ==
    IF strip(s) = <<>> THEN zeros(d)
    ELSE IF outcome = Raised THEN <<>>
    ELSE outcome.embedding

\* lines 43-58
generate_embedding(s, d, outcome) ==
    IF strip(s) = <<>> THEN zeros(d)
    ELSE IF outcome = Raised THEN zeros(d)
    ELSE outcome.embedding

\* line 86: texts[i:i + self.batch_size]
batch_of(list, i, size) == SubSeq(list, i + 1, Min(i + size, Len(list)))

InitEmbed ==
    /\ mode \in {"generate_embedding", "generate_embeddings_batch"}
    /\ pc = mode
    /\ dimension \in 1..MaxDimension
    /\ batch_size \in 1..MaxBatchSize
    /\ \/ mode = "generate_embedding" /\ text \in EmbedTexts /\ texts = <<>>
       \/ mode = "generate_embeddings_batch" /\ text = <<>> /\ texts \in EmbedTextLists
    /\ batch_i = 0
    /\ batch = <<>>
    /\ batch_embeddings = <<>>
    /\ embeddings = <<>>
    /\ ChunkerAtRest
    /\ DedupIdle
    /\ IndexIdle
    /\ RetrieveIdle
    /\ ExpanderIdle
    /\ StoreIdle
    /\ PipelineIdle

embed_rest == <<config_vars, metadata, sentences, sent_i, chunks, current_chunk,
                current_word_count, chunk_index, page_vars, retriever_vars, store_vars,
                pdf_paths, path_i, pdf_path, files, calls, reported, stranded>>

\* lines 32-58, called by the client
generate_embedding_call ==
    /\ pc = "generate_embedding"
    /\ \E outcome \in EmbedOutcomes(text, dimension) :
        /\ ret' = generate_embedding(text, dimension, outcome)
        /\ failed' = IF strip(text) # <<>> /\ outcome = Raised THEN {1} ELSE {}
    /\ pc' = "done"
    /\ UNCHANGED <<mode, text, embed_vars, embed_rest>>

\* lines 77-78
generate_embeddings_batch ==
    /\ pc = "generate_embeddings_batch"
    /\ embeddings' = <<>>
    /\ batch_i' = 0
    /\ pc' = "for_batch"
    /\ UNCHANGED <<mode, text, ret, texts, dimension, batch_size, batch, batch_embeddings,
                   failed, embed_rest>>

\* lines 85-90
for_batch ==
    /\ pc = "for_batch"
    /\ batch_i < Len(texts)
    /\ batch' = batch_of(texts, batch_i, batch_size)
    /\ batch_embeddings' = <<>>
    /\ pc' = "for_text"
    /\ UNCHANGED <<mode, text, ret, texts, dimension, batch_size, batch_i, embeddings,
                   failed, embed_rest>>

\* lines 91-96
for_text ==
    /\ pc = "for_text"
    /\ Len(batch_embeddings) < Len(batch)
    /\ LET j == Len(batch_embeddings) + 1
       IN  /\ text' = batch[j]
           /\ \E outcome \in EmbedOutcomes(batch[j], dimension) :
                /\ batch_embeddings' =
                       Append(batch_embeddings, generate_embedding(batch[j], dimension, outcome))
                /\ failed' = IF strip(batch[j]) # <<>> /\ outcome = Raised
                             THEN failed \cup {batch_i + j}
                             ELSE failed
    /\ UNCHANGED <<pc, mode, ret, texts, dimension, batch_size, batch_i, batch, embeddings,
                   embed_rest>>

\* line 98, and the next value of i at line 85
extend_embeddings ==
    /\ pc = "for_text"
    /\ Len(batch_embeddings) = Len(batch)
    /\ embeddings' = embeddings \o batch_embeddings
    /\ batch_i' = batch_i + batch_size
    /\ pc' = "for_batch"
    /\ UNCHANGED <<mode, text, ret, texts, dimension, batch_size, batch, batch_embeddings,
                   failed, embed_rest>>

\* lines 105-106
generate_embeddings_batch_return ==
    /\ pc = "for_batch"
    /\ batch_i >= Len(texts)
    /\ ret' = embeddings
    /\ pc' = "done"
    /\ UNCHANGED <<mode, text, embed_vars, failed, embed_rest>>

NextEmbed ==
    \/ generate_embedding_call
    \/ generate_embeddings_batch
    \/ for_batch
    \/ for_text
    \/ extend_embeddings
    \/ generate_embeddings_batch_return

SpecEmbed == InitEmbed /\ [][NextEmbed]_vars

(***************************************************************************)
(* RAGPipeline (src/AIDocs/src/main.py) with ChromaManager.add_chunks,     *)
(* get_collection_stats and clear_collection                               *)
(* (src/AIDocs/src/vector_store/chroma_manager.py), and the directory      *)
(* sweeps of PDFExtractor and TextChunker.  A path is the sequence of its  *)
(* parts.  The client of the pipeline makes up to MaxCalls calls of         *)
(* process_pdf, clear_database, ask_question and get_stats, one after the  *)
(* other; process_multiple_pdfs and the sweeps are followed through one    *)
(* call.                                                                   *)
(*   collection   the stored entries, in the order they were added         *)
(*   uuids        the number of uuid4 values drawn so far                  *)
(*   reported     the sum of the chunk counts process_pdf returned since   *)
(*                the collection was last cleared                          *)
(*   stranded     the number of chunks stored since then by process_pdf    *)
(*                calls that raised afterwards                             *)
(*   failed       the positions of the running sweep whose item raised     *)
(***************************************************************************)
Paths == {<<"in", "a.pdf">>, <<"b.pdf">>, <<"in", "c.pdf">>}

PathLists == UNION {[1..n -> Paths] : n \in 0..MaxPaths}

\* Path(pdf_path).name
name_of(path) == path[Len(path)]

\* the number of chunks the chunker makes of the document: many, one, none
num_chunks(path) ==
    IF name_of(path) = "a.pdf" THEN MaxDocChunks
    ELSE IF name_of(path) = "b.pdf" THEN 1
    ELSE 0

\* main.py lines 47-50: the chunks of the document at the path
doc_chunks(path) ==
    [k \in 1..num_chunks(path) |->
        [chunk_id |-> k - 1, text |-> <<name_of(path), k>>,
         metadata |-> [filename |-> name_of(path)]]]

\* pdf_extractor.py lines 143-151
extraction_result(path) ==
    [metadata |-> [filename |-> name_of(path)],
     statistics |-> [total_pages |-> num_chunks(path)]]

\* chroma_manager.py lines 76-79: the uuid4 values of the chunks of one call,
\* issued counts the values drawn up to and including this call
chunk_ids(issued, n) == [k \in 1..n |-> issued - n + k]

\* chroma_manager.py line 82
documents_of(list) == [k \in 1..Len(list) |-> list[k].text]

\* chroma_manager.py lines 102-107 storing only documents the collection lacks
stored_new_documents(coll, ids, documents) ==
    coll \o SelectSeq([k \in 1..Len(ids) |-> [id |-> ids[k], document |-> documents[k]]],
                      LAMBDA e : \A j \in 1..Len(coll) : coll[j].document # e.document)

\* chroma_manager.py lines 102-107: collection.add
stored(coll, ids, documents) ==
    coll \o [k \in 1..Len(ids) |-> [id |-> ids[k], document |-> documents[k]]]

\* main.py lines 55-60
stats(path, list) == [filename |-> name_of(path), chunks |-> Len(list)]

\* main.py lines 82-85
error_entry(path) == [filename |-> name_of(path), error |-> "Exception"]

\* where an exception inside process_pdf goes: the except clause of
\* process_multiple_pdfs (main.py line 80), or the client
raise_to == IF mode = "process_multiple_pdfs" THEN "except" ELSE "ready"

\* the pipeline is constructed over an empty collection
InitPipeline ==
    /\ mode = "none"
    /\ pc = "ready"
    /\ collection = <<>>
    /\ uuids = 0
    /\ add_batch_size \in 1..MaxBatchSize
    /\ add_i = 0
    /\ PipelineIdle
    /\ EmbedIdle
    /\ ChunkerIdle
    /\ DedupIdle
    /\ IndexIdle
    /\ RetrieveIdle
    /\ ExpanderIdle

\* process_multiple_pdfs(pdf_paths) is called on a pipeline just constructed
InitMultiple ==
    /\ mode = "process_multiple_pdfs"
    /\ pc = mode
    /\ pdf_paths \in PathLists
    /\ path_i = 1
    /\ pdf_path = <<>>
    /\ files = <<>>
    /\ failed = {}
    /\ calls = 0
    /\ reported = 0
    /\ stranded = 0
    /\ collection = <<>>
    /\ uuids = 0
    /\ add_batch_size \in 1..MaxBatchSize
    /\ add_i = 0
    /\ EmbedIdle
    /\ ChunkerIdle
    /\ DedupIdle
    /\ IndexIdle
    /\ RetrieveIdle
    /\ ExpanderIdle

\* a directory sweep of the extractor or of the chunker is called
InitSweep ==
    /\ mode \in {"PDFExtractor.process_directory", "TextChunker.process_directory"}
    /\ pc = mode
    /\ files \in PathLists
    /\ pdf_paths = <<>>
    /\ path_i = 1
    /\ pdf_path = <<>>
    /\ failed = {}
    /\ calls = 0
    /\ reported = 0
    /\ stranded = 0
    /\ StoreIdle
    /\ EmbedIdle
    /\ ChunkerIdle
    /\ DedupIdle
    /\ IndexIdle
    /\ RetrieveIdle
    /\ ExpanderIdle

pipeline_rest == <<config_vars, text, metadata, sentences, sent_i, current_chunk,
                   current_word_count, chunk_index, pages, doc_metadata, page_i,
                   res_i, seen_texts, unique_results, index_vars, retrieve_vars,
                   expander_vars, embed_vars>>

\* the client's next call of the pipeline; the call has a frame of its own,
\* the locals of the call before it are gone
new_call(entry) ==
    /\ pc = "ready"
    /\ calls < MaxCalls
    /\ calls' = calls + 1
    /\ mode' = entry
    /\ chunks' = <<>>
    /\ results' = <<>>
    /\ failed' = {}
    /\ path_i' = 1
    /\ add_i' = 0

\* main.py lines 31-41: the client calls process_pdf(pdf_path)
process_pdf_call ==
    /\ new_call("process_pdf")
    /\ \E p \in Paths : pdf_path' = p
    /\ pdf_paths' = <<>>
    /\ ret' = NoneValue
    /\ pc' = "process_pdf"
    /\ UNCHANGED <<all_chunks, collection, uuids, add_batch_size, files, reported,
                   stranded, pipeline_rest>>

\* main.py line 75
process_multiple_pdfs ==
    /\ pc = "process_multiple_pdfs"
    /\ results' = <<>>
    /\ pc' = "for_pdf_path"
    /\ UNCHANGED <<mode, ret, chunks, all_chunks, collection, uuids, add_batch_size, add_i,
                   pdf_paths, path_i, pdf_path, files, failed, calls, reported, stranded,
                   pipeline_rest>>

\* main.py lines 76-78: the next path of the loop
for_pdf_path ==
    /\ pc = "for_pdf_path"
    /\ path_i <= Len(pdf_paths)
    /\ pdf_path' = pdf_paths[path_i]
    /\ pc' = "process_pdf"
    /\ UNCHANGED <<mode, ret, chunks, results, all_chunks, collection, uuids,
                   add_batch_size, add_i, pdf_paths, path_i, files, failed, calls,
                   reported, stranded, pipeline_rest>>

\* main.py line 44: pdf_extractor.process_pdf raises (no file, no PDF)
extraction_raises ==
    /\ pc = "process_pdf"
    /\ ret' = IF mode = "process_pdf" THEN Raised ELSE ret
    /\ pc' = raise_to
    /\ UNCHANGED <<mode, chunks, results, all_chunks, collection, uuids, add_batch_size,
                   add_i, pdf_paths, path_i, pdf_path, files, failed, calls, reported,
                   stranded, pipeline_rest>>

\* main.py lines 44-50: the text is extracted and chunked
chunk_document ==
    /\ pc = "process_pdf"
    /\ chunks' = doc_chunks(pdf_path)
    /\ pc' = "add_chunks"
    /\ UNCHANGED <<mode, ret, results, all_chunks, collection, uuids, add_batch_size,
                   add_i, pdf_paths, path_i, pdf_path, files, failed, calls, reported,
                   stranded, pipeline_rest>>

\* chroma_manager.py lines 59-61: no chunks to add
add_chunks_nothing ==
    /\ pc = "add_chunks"
    /\ chunks = <<>>
    /\ pc' = "stats"
    /\ UNCHANGED <<mode, ret, chunks, results, all_chunks, collection, uuids,
                   add_batch_size, add_i, pdf_paths, path_i, pdf_path, files, failed,
                   calls, reported, stranded, pipeline_rest>>

\* chroma_manager.py lines 63-96: embeddings, and one uuid4 for every chunk
add_chunks_prepare ==
    /\ pc = "add_chunks"
    /\ chunks # <<>>
    /\ uuids' = uuids + Len(chunks)
    /\ add_i' = 0
    /\ pc' = "for_add_batch"
    /\ UNCHANGED <<mode, ret, chunks, results, all_chunks, collection, add_batch_size,
                   pdf_paths, path_i, pdf_path, files, failed, calls, reported, stranded,
                   pipeline_rest>>

\* chroma_manager.py lines 99-109: one batch is stored
collection_add ==
    /\ pc = "for_add_batch"
    /\ add_i < Len(chunks)
    /\ LET batch_end == Min(add_i + add_batch_size, Len(chunks))
       IN  collection' = stored(collection,
                                SubSeq(chunk_ids(uuids, Len(chunks)), add_i + 1, batch_end),
                                SubSeq(documents_of(chunks), add_i + 1, batch_end))
    /\ add_i' = add_i + add_batch_size
    /\ UNCHANGED <<pc, mode, ret, chunks, results, all_chunks, uuids, add_batch_size,
                   pdf_paths, path_i, pdf_path, files, failed, calls, reported, stranded,
                   pipeline_rest>>

\* chroma_manager.py lines 102-107: collection.add raises; the batches stored before stay
collection_add_raises ==
    /\ pc = "for_add_batch"
    /\ add_i < Len(chunks)
    /\ stranded' = stranded + add_i
    /\ ret' = IF mode = "process_pdf" THEN Raised ELSE ret
    /\ pc' = raise_to
    /\ UNCHANGED <<mode, chunks, results, all_chunks, collection, uuids, add_batch_size,
                   add_i, pdf_paths, path_i, pdf_path, files, failed, calls, reported,
                   pipeline_rest>>

\* chroma_manager.py line 111
add_chunks_return ==
    /\ pc = "for_add_batch"
    /\ add_i >= Len(chunks)
    /\ pc' = "stats"
    /\ UNCHANGED <<mode, ret, chunks, results, all_chunks, collection, uuids,
                   add_batch_size, add_i, pdf_paths, path_i, pdf_path, files, failed,
                   calls, reported, stranded, pipeline_rest>>

\* main.py lines 55-63, and line 79 when process_multiple_pdfs called
process_pdf_return ==
    /\ pc = "stats"
    /\ reported' = reported + Len(chunks)
    /\ IF mode = "process_multiple_pdfs"
       THEN /\ results' = Append(results, stats(pdf_path, chunks))
            /\ path_i' = path_i + 1
            /\ pc' = "for_pdf_path"
            /\ ret' = ret
       ELSE /\ ret' = stats(pdf_path, chunks)
            /\ pc' = "ready"
            /\ UNCHANGED <<results, path_i>>
    /\ UNCHANGED <<mode, chunks, all_chunks, collection, uuids, add_batch_size, add_i,
                   pdf_paths, pdf_path, files, failed, calls, stranded, pipeline_rest>>

\* main.py lines 80-85 with the loop left at the first failure
except_abort ==
    /\ pc = "except"
    /\ results' = Append(results, error_entry(pdf_path))
    /\ failed' = failed \cup {path_i}
    /\ path_i' = Len(pdf_paths) + 1
    /\ pc' = "for_pdf_path"
    /\ UNCHANGED <<mode, ret, chunks, all_chunks, collection, uuids, add_batch_size, add_i,
                   pdf_paths, pdf_path, files, calls, reported, stranded, pipeline_rest>>

\* main.py lines 80-85: the failure becomes an entry of results
except_append ==
    /\ pc = "except"
    /\ results' = Append(results, error_entry(pdf_path))
    /\ failed' = failed \cup {path_i}
    /\ path_i' = path_i + 1
    /\ pc' = "for_pdf_path"
    /\ UNCHANGED <<mode, ret, chunks, all_chunks, collection, uuids, add_batch_size, add_i,
                   pdf_paths, pdf_path, files, calls, reported, stranded, pipeline_rest>>

\* main.py line 87
process_multiple_pdfs_return ==
    /\ pc = "for_pdf_path"
    /\ path_i > Len(pdf_paths)
    /\ ret' = results
    /\ pc' = "done"
    /\ UNCHANGED <<mode, chunks, results, all_chunks, collection, uuids, add_batch_size,
                   add_i, pdf_paths, path_i, pdf_path, files, failed, calls, reported,
                   stranded, pipeline_rest>>

\* main.py lines 126-129, chroma_manager.py lines 242-249
clear_database ==
    /\ new_call("clear_database")
    /\ collection' = <<>>
    /\ reported' = 0
    /\ stranded' = 0
    /\ pdf_paths' = <<>>
    /\ pdf_path' = <<>>
    /\ ret' = NoneValue
    /\ UNCHANGED <<pc, all_chunks, uuids, add_batch_size, files, pipeline_rest>>

\* main.py lines 89-116: retrieval and answering read the collection; the call
\* returns a result or raises
ask_question ==
    /\ new_call("ask_question")
    /\ pdf_paths' = <<>>
    /\ pdf_path' = <<>>
    /\ \E outcome \in {Raised} \cup
                     {[num_sources |-> n] : n \in 0..Min(Len(collection), MaxTopK)} :
          ret' = outcome
    /\ UNCHANGED <<pc, all_chunks, collection, uuids, add_batch_size, files, reported,
                   stranded, pipeline_rest>>

\* main.py lines 118-124, chroma_manager.py lines 233-240
get_stats ==
    /\ new_call("get_stats")
    /\ pdf_paths' = <<>>
    /\ pdf_path' = <<>>
    /\ ret' = [total_chunks |-> Len(collection), collection_name |-> "pdf_documents"]
    /\ UNCHANGED <<pc, all_chunks, collection, uuids, add_batch_size, files, reported,
                   stranded, pipeline_rest>>

\* pdf_extractor.py lines 187-193: the sweep over the PDF files of a directory
extractor_process_directory ==
    /\ pc = "PDFExtractor.process_directory"
    /\ results' = <<>>
    /\ pc' = "for_pdf_file"
    /\ UNCHANGED <<mode, ret, chunks, all_chunks, collection, uuids, add_batch_size, add_i,
                   pdf_paths, path_i, pdf_path, files, failed, calls, reported, stranded,
                   pipeline_rest>>

\* pdf_extractor.py lines 194-199: process_pdf returns or raises
for_pdf_file ==
    /\ pc = "for_pdf_file"
    /\ path_i <= Len(files)
    /\ path_i' = path_i + 1
    /\ \E outcome \in {Raised, extraction_result(files[path_i])} :
          IF outcome = Raised
          THEN /\ failed' = failed \cup {path_i}
               /\ results' = results
          ELSE /\ results' = Append(results, outcome)
               /\ failed' = failed
    /\ UNCHANGED <<pc, mode, ret, chunks, all_chunks, collection, uuids, add_batch_size,
                   add_i, pdf_paths, pdf_path, files, calls, reported, stranded,
                   pipeline_rest>>

\* pdf_extractor.py lines 201-202
extractor_process_directory_return ==
    /\ pc = "for_pdf_file"
    /\ path_i > Len(files)
    /\ ret' = results
    /\ pc' = "done"
    /\ UNCHANGED <<mode, chunks, results, all_chunks, collection, uuids, add_batch_size,
                   add_i, pdf_paths, path_i, pdf_path, files, failed, calls, reported,
                   stranded, pipeline_rest>>

\* chunker.py lines 199-205: the sweep over the extracted documents of a directory
chunker_process_directory ==
    /\ pc = "TextChunker.process_directory"
    /\ all_chunks' = <<>>
    /\ pc' = "for_json_path"
    /\ UNCHANGED <<mode, ret, chunks, results, collection, uuids, add_batch_size, add_i,
                   pdf_paths, path_i, pdf_path, files, failed, calls, reported, stranded,
                   pipeline_rest>>

\* chunker.py lines 206-211: process_extracted_document returns or raises
for_json_path ==
    /\ pc = "for_json_path"
    /\ path_i <= Len(files)
    /\ path_i' = path_i + 1
    /\ \E outcome \in {Raised, [chunks |-> doc_chunks(files[path_i])]} :
          IF outcome = Raised
          THEN /\ failed' = failed \cup {path_i}
               /\ all_chunks' = all_chunks
          ELSE /\ all_chunks' = all_chunks \o outcome.chunks
               /\ failed' = failed
    /\ UNCHANGED <<pc, mode, ret, chunks, results, collection, uuids, add_batch_size,
                   add_i, pdf_paths, pdf_path, files, calls, reported, stranded,
                   pipeline_rest>>

\* chunker.py lines 213-214
chunker_process_directory_return ==
    /\ pc = "for_json_path"
    /\ path_i > Len(files)
    /\ ret' = all_chunks
    /\ pc' = "done"
    /\ UNCHANGED <<mode, chunks, results, all_chunks, collection, uuids, add_batch_size,
                   add_i, pdf_paths, path_i, pdf_path, files, failed, calls, reported,
                   stranded, pipeline_rest>>

NextPipeline ==
    \/ process_pdf_call
    \/ extraction_raises
    \/ chunk_document
    \/ add_chunks_nothing
    \/ add_chunks_prepare
    \/ collection_add
    \/ collection_add_raises
    \/ add_chunks_return
    \/ process_pdf_return
    \/ clear_database
    \/ ask_question
    \/ get_stats

SpecPipeline == InitPipeline /\ [][NextPipeline]_vars

NextBatch ==
    \/ process_multiple_pdfs
    \/ for_pdf_path
    \/ extraction_raises
    \/ chunk_document
    \/ add_chunks_nothing
    \/ add_chunks_prepare
    \/ collection_add
    \/ collection_add_raises
    \/ add_chunks_return
    \/ process_pdf_return
    \/ except_append
    \/ process_multiple_pdfs_return
    \/ extractor_process_directory
    \/ for_pdf_file
    \/ extractor_process_directory_return
    \/ chunker_process_directory
    \/ for_json_path
    \/ chunker_process_directory_return

SpecBatch == (InitMultiple \/ InitSweep) /\ [][NextBatch]_vars

(***************************************************************************)
(* Properties of the chunker.                                              *)
(***************************************************************************)
words_of(chunk) == split(chunk.text)

suffix(s, n) == SubSeq(s, Len(s) - n + 1, Len(s))

is_infix(a, b) ==
    \E i \in 0..(Len(b) - Len(a)) : SubSeq(b, i + 1, i + Len(a)) = a

\* the words of sentences i..j, in order
RECURSIVE flat(_, _)
flat(i, j) ==
    IF i > j THEN <<>> ELSE split(sentences[i]) \o flat(i + 1, j)

\* the chunk lists a call holds or has returned
chunk_lists == {chunks, all_chunks, ret}

\* C1: every chunk's word_count is the number of whitespace-delimited
\* tokens of its text, for the chunks sealed on overflow and for the final
\* chunk alike.
C1_WordCount ==
    \A list \in chunk_lists : \A i \in 1..Len(list) :
        Len(split(list[i].text)) = list[i].word_count

\* a call returned a chunk sealed on overflow and a final chunk
C1_Witness ==
    /\ pc = "done"
    /\ mode = "create_chunks"
    /\ Len(ret) >= 2
    /\ ret[1].word_count >= 2

overlap_holds(prev, next) ==
    LET p == words_of(prev)
        n == words_of(next)
        k == Min(overlap_words, Len(p))
    IN  /\ Len(n) >= k
        /\ SubSeq(n, 1, k) = suffix(p, k)

\* C2: of two consecutive chunks of one create_chunks call, the later one
\* starts with the last min(overlap_words, len(previous chunk)) words of
\* the earlier one, in the same order.
C2_Overlap ==
    \A i \in 1..(Len(chunks) - 1) : overlap_holds(chunks[i], chunks[i + 1])

\* two chunks were returned, the first longer than a positive overlap
C2_Witness ==
    /\ pc = "done"
    /\ mode = "create_chunks"
    /\ overlap_words >= 1
    /\ Len(ret) >= 2
    /\ Len(words_of(ret[1])) > overlap_words
    /\ Len(words_of(ret[2])) > overlap_words

\* the words of chunk i after its overlap seed
non_overlap(list, i) ==
    IF i = 1 THEN words_of(list[1])
    ELSE LET w == words_of(list[i])
             k == Min(overlap_words, Len(words_of(list[i - 1])))
         IN  SubSeq(w, k + 1, Len(w))

RECURSIVE reconstruct(_, _)
reconstruct(list, i) ==
    IF i > Len(list) THEN <<>>
    ELSE non_overlap(list, i) \o reconstruct(list, i + 1)

\* C3: with min_chunk_size = 0 and a non-empty input, the first chunk
\* followed by the later chunks' words after their overlap seeds is exactly
\* the token sequence of the input.
C3_Reconstruction ==
    (pc = "done" /\ mode = "create_chunks" /\ min_chunk_size = 0 /\ text # <<>>)
        => reconstruct(ret, 1) = split(text)

\* C4: at input exhaustion the buffer becomes the last chunk if and only if
\* it has at least min_chunk_size words; otherwise it is dropped and the
\* chunks sealed before stay as they are.
C4_FinalBuffer ==
    [][ (pc = "for_sentence" /\ sent_i > Len(sentences)) =>
          IF current_word_count >= min_chunk_size
          THEN /\ Len(chunks') = Len(chunks) + 1
               /\ SubSeq(chunks', 1, Len(chunks)) = chunks
               /\ words_of(chunks'[Len(chunks')]) = current_chunk
               /\ chunks'[Len(chunks')].word_count = current_word_count
          ELSE chunks' = chunks ]_vars

\* a call dropped a short final buffer after sealing a chunk
C4_Witness ==
    /\ pc = "return"
    /\ strip(text) # <<>>
    /\ chunk_index >= 1
    /\ Len(chunks) = chunk_index
    /\ current_word_count < min_chunk_size

\* C5: create_chunks returns no chunk for an empty or whitespace-only text,
\* and in chunk_document_pages a page whose text is empty or whitespace-only
\* contributes no chunk.
C5_BlankInput ==
    /\ (pc = "done" /\ mode = "create_chunks" /\ strip(text) = <<>>)
          => ret = <<>>
    /\ (pc = "done" /\ mode = "chunk_document_pages")
          => \A i \in 1..Len(ret) : \A p \in 1..Len(pages) :
                pages[p].page_number = ret[i].metadata.page_number
                    => strip(pages[p].text) # <<>>

\* create_chunks returned from a whitespace-only text
C5_Witness ==
    /\ pc = "done"
    /\ mode = "create_chunks"
    /\ Len(text) >= 2
    /\ strip(text) = <<>>

same_page(a, b) == a.metadata.page_number = b.metadata.page_number

\* C6: chunk_document_pages returns ids 0..n-1 in list order, the chunks of
\* an earlier page before those of a later page, the chunks of one page in
\* the order create_chunks numbered them, and every chunk's words are
\* consecutive words of the one page whose page_number its metadata holds.
C6_PageOrder ==
    /\ [](mode = "chunk_document_pages" =>
            /\ pc # "done" =>
                 \A i, j \in 1..Len(all_chunks) :
                    (i < j /\ same_page(all_chunks[i], all_chunks[j]))
                       => all_chunks[i].chunk_id < all_chunks[j].chunk_id
            /\ pc = "done" =>
                 /\ \A i \in 1..Len(ret) : ret[i].chunk_id = i - 1
                 /\ \A i, j \in 1..Len(ret) :
                       i < j => ret[i].metadata.page_number
                                   <= ret[j].metadata.page_number
                 /\ \A i \in 1..Len(ret) : \E p \in 1..Len(pages) :
                       /\ pages[p].page_number = ret[i].metadata.page_number
                       /\ is_infix(words_of(ret[i]), split(pages[p].text)))
    /\ [][ (pc = "for_page" /\ page_i > Len(pages)) =>
             /\ Len(ret') = Len(all_chunks)
             /\ \A i \in 1..Len(all_chunks) :
                   ret'[i] = [all_chunks[i] EXCEPT !.chunk_id = i - 1] ]_vars

\* two pages contributed chunks, one of them more than one
C6_Witness ==
    /\ pc = "done"
    /\ mode = "chunk_document_pages"
    /\ Len(ret) >= 3
    /\ ret[1].metadata.page_number # ret[Len(ret)].metadata.page_number

\* the numbers n of leading sentences that chunks k.. of the list can hold
\* when each chunk is some words from the end of the chunk before it
\* followed by one or more whole sentences, sentence e + 1 being the next
RECURSIVE tiling_ends(_, _)
tiling_ends(k, e) ==
    IF k > Len(chunks) THEN {e}
    ELSE UNION { tiling_ends(k + 1, e2) :
                 e2 \in { x \in (e + 1)..Len(sentences) :
                     \E s \in 0..(IF k = 1 THEN 0 ELSE Len(words_of(chunks[k - 1]))) :
                        words_of(chunks[k]) =
                            (IF k = 1 THEN <<>> ELSE suffix(words_of(chunks[k - 1]), s))
                            \o flat(e + 1, x) } }

\* the dropped final buffer holds exactly the sentences after the first n
dropped_tail(n) ==
    /\ n < Len(sentences)
    /\ Len(chunks) = chunk_index
    /\ current_word_count < min_chunk_size
    /\ LET last == IF chunks = <<>> THEN <<>> ELSE words_of(chunks[Len(chunks)])
       IN  \E s \in 0..Len(last) :
              current_chunk = suffix(last, s) \o flat(n + 1, Len(sentences))

long_sentences == {j \in 1..Len(sentences) : Len(split(sentences[j])) > chunk_size_words}

\* C7 as claimed: the buffers hold whole sentences, each sentence in one
\* buffer, and every sentence longer than chunk_size_words is in a returned
\* chunk.  Stated for overlap_words >= 1, where the seed is the last
\* overlap_words words.
C7_AtomicAlwaysEmitted ==
    (pc = "return" /\ strip(text) # <<>> /\ overlap_words >= 1) =>
        \E n \in tiling_ends(1, 0) :
            /\ n = Len(sentences) \/ dropped_tail(n)
            /\ \A j \in long_sentences : j <= n

\* C7: every returned chunk is some words from the end of the chunk before
\* it followed by one or more whole consecutive sentences, each sentence
\* lies in one buffer only, and a sentence longer than chunk_size_words is
\* whole in one returned chunk unless it lies in the final buffer and that
\* buffer, having fewer than min_chunk_size words, is dropped.
C7_SentencesAtomic ==
    (pc = "return" /\ strip(text) # <<>>) =>
        \E n \in tiling_ends(1, 0) :
            /\ n = Len(sentences) \/ dropped_tail(n)
            /\ \A k \in 1..Len(chunks) :
                  (\E j \in long_sentences : is_infix(split(sentences[j]), words_of(chunks[k])))
                      => chunks[k].word_count > chunk_size_words

\* a sentence longer than chunk_size_words went into a returned chunk after
\* another chunk
C7_Witness ==
    /\ pc = "return"
    /\ Len(chunks) >= 2
    /\ \E j \in long_sentences :
          /\ j > 1
          /\ is_infix(split(sentences[j]), words_of(chunks[2]))

\* C8 as claimed: a chunk has at most chunk_size_words words unless it
\* contains a sentence of more than chunk_size_words words.  Stated for the
\* configurations section 4.1 assumes, 0 < overlap_words < chunk_size_words.
C8_SizeBounded ==
    (pc = "return" /\ strip(text) # <<>>
        /\ 0 < overlap_words /\ overlap_words < chunk_size_words) =>
        \A k \in 1..Len(chunks) :
            \/ chunks[k].word_count <= chunk_size_words
            \/ \E j \in long_sentences :
                  is_infix(split(sentences[j]), words_of(chunks[k]))

\* C8: a chunk has at most chunk_size_words words unless it is the words
\* carried over from the chunk before it followed by exactly one sentence.
C8_SizeBoundedButSeed ==
    (pc = "return" /\ strip(text) # <<>>) =>
        \A k \in 1..Len(chunks) :
            \/ chunks[k].word_count <= chunk_size_words
            \/ \E j \in 1..Len(sentences) :
                  \E s \in 0..(IF k = 1 THEN 0 ELSE Len(words_of(chunks[k - 1]))) :
                     words_of(chunks[k]) =
                        (IF k = 1 THEN <<>> ELSE suffix(words_of(chunks[k - 1]), s))
                        \o split(sentences[j])

\* a chunk exceeds chunk_size_words though no sentence in the text does
C8_Witness ==
    /\ pc = "return"
    /\ long_sentences = {}
    /\ overlap_words < chunk_size_words
    /\ \E k \in 1..Len(chunks) : chunks[k].word_count > chunk_size_words

scenario_word(i) == <<ScenarioWords[i], ".">>

\* C9: chunk_size_words=10, overlap_words=3, min_chunk_size=5 and fifteen
\* one-word sentences give exactly two chunks: words 1..10, then words 8..10
\* followed by words 11..15.
C9_Scenario ==
    (pc = "done" /\ text = ScenarioText /\ chunk_size_words = 10
        /\ overlap_words = 3 /\ min_chunk_size = 5) =>
        /\ Len(ret) = 2
        /\ words_of(ret[1]) = [i \in 1..10 |-> scenario_word(i)]
        /\ ret[1].word_count = 10
        /\ words_of(ret[2]) = [i \in 1..8 |-> scenario_word(i + 7)]
        /\ ret[2].word_count = 8

\* the scenario's call returned
C9_Witness ==
    /\ pc = "done"
    /\ text = ScenarioText
    /\ chunk_size_words = 10
    /\ overlap_words = 3
    /\ min_chunk_size = 5
    /\ Len(ret) > 0

\* C30: min_chunk_size is tested on the buffer left when the sentences are
\* exhausted and nowhere else: a buffer that is not empty is sealed and emitted
\* with its word count, whatever it is, as soon as the next sentence would take
\* it past chunk_size_words; every chunk emitted has text.
C30_SealedWhateverCount ==
    /\ [][(pc = "for_sentence" /\ sent_i <= Len(sentences) /\ current_chunk # <<>>
              /\ current_word_count + Len(split(sentences[sent_i])) > chunk_size_words) =>
             chunks' = Append(chunks, new_chunk(chunk_index, current_chunk,
                                                current_word_count, metadata))]_vars
    /\ [][(pc = "for_sentence" /\ sent_i > Len(sentences) /\ Len(chunks') > Len(chunks)) =>
             current_word_count >= min_chunk_size]_vars
    /\ []((pc = "done" /\ mode = "create_chunks") =>
             \A i \in 1..Len(ret) : ret[i].text # <<>> /\ count_words(ret[i].text) >= 1)

\* a chunk that is not the last has fewer words than min_chunk_size
C30_Witness ==
    /\ pc = "done" /\ mode = "create_chunks"
    /\ Len(ret) >= 2
    /\ ret[1].word_count < min_chunk_size
    /\ count_words(ret[1].text) < min_chunk_size
    /\ ret[Len(ret)].word_count >= min_chunk_size

(***************************************************************************)
(* Properties of the retriever.                                            *)
(***************************************************************************)
\* C10: deduplicate_results returns a subsequence of its input in which no
\* two candidates share their first 100 characters, and of the candidates
\* sharing a prefix the earliest is the one kept, whatever their ids and
\* metadata.
C10_Dedup ==
    (pc = "done" /\ mode = "deduplicate_results") =>
        \E f \in [1..Len(ret) -> 1..Len(results)] :
            /\ \A k, l \in 1..Len(ret) : k < l => f[k] < f[l]
            /\ \A k \in 1..Len(ret) : ret[k] = results[f[k]]
            /\ \A k, l \in 1..Len(ret) :
                  k # l => prefix(ret[k].text, 100) # prefix(ret[l].text, 100)
            /\ \A i \in 1..Len(results) :
                  \E k \in 1..Len(ret) :
                     /\ prefix(results[i].text, 100) = prefix(ret[k].text, 100)
                     /\ \A j \in 1..Len(results) :
                           prefix(results[j].text, 100) = prefix(results[i].text, 100)
                              => f[k] <= j

\* a later candidate with another id and another text, equal to an earlier
\* one in its first 100 characters, was dropped
C10_Witness ==
    /\ pc = "done"
    /\ mode = "deduplicate_results"
    /\ Len(ret) >= 2
    /\ \E i, j \in 1..Len(results) :
          /\ i < j
          /\ results[i].id # results[j].id
          /\ results[i].text # results[j].text
          /\ prefix(results[i].text, 100) = prefix(results[j].text, 100)
          /\ \A k \in 1..Len(ret) : ret[k] # results[j]

\* C11: deduplicating a deduplicated list changes nothing, and the list
\* deduplicate_results returns is never longer than the list it was given.
C11_Idempotent ==
    /\ (pc = "done" /\ mode \in {"deduplicate_results", "deduplicate_results_again"})
          => Len(ret) <= Len(results)
    /\ (pc = "done" /\ mode = "deduplicate_results_again") => ret = results

\* the second pass has run over a list of two candidates that have one id
C11_Witness ==
    /\ pc = "done"
    /\ mode = "deduplicate_results_again"
    /\ Len(results) = 2
    /\ results[1].id = results[2].id

(***************************************************************************)
(* Properties of the index layer.                                          *)
(***************************************************************************)
semantic_ids == [i \in 1..Len(semantic_results) |-> semantic_results[i].id]
ids_of(list) == {list[i] : i \in 1..Len(list)}
position(list, x) == CHOOSE i \in 1..Len(list) : list[i] = x

\* weight * (1 - i/N) for the id at zero-based rank i of a list of N ids, and
\* 0 for an id that is not in the list
contribution(ids, id, weight) ==
    IF id \in ids_of(ids)
    THEN Rat(weight.num * (Len(ids) - (position(ids, id) - 1)), weight.den * Len(ids))
    ELSE Zero

\* C12: in hybrid_search the combined score of an id is the sum, over the
\* semantic and the keyword list, of weight * (1 - i/N) for its zero-based
\* rank i in a list of N ids: 0 for a list it is not in, exactly the weight
\* for rank 0, and the sum of both for an id in both lists.
C12_CombinedScore ==
    pc = "rank" =>
        /\ dict_keys(result_scores) = ids_of(semantic_ids) \cup ids_of(keyword_results.ids)
        /\ \A id \in dict_keys(result_scores) :
              /\ dict_get(result_scores, id).score =
                    RatAdd(contribution(semantic_ids, id, semantic_weight),
                           contribution(keyword_results.ids, id, keyword_weight))
              /\ (semantic_ids # <<>> /\ semantic_ids[1] = id
                     /\ id \notin ids_of(keyword_results.ids))
                    => dict_get(result_scores, id).score = semantic_weight
              /\ (keyword_results.ids # <<>> /\ keyword_results.ids[1] = id
                     /\ id \notin ids_of(semantic_ids))
                    => dict_get(result_scores, id).score = keyword_weight

\* one id is in both lists, at rank 1 of each, another is first in the
\* semantic list only, a third first in the keyword list only
C12_Witness ==
    /\ pc = "rank"
    /\ Len(semantic_ids) >= 2
    /\ Len(keyword_results.ids) >= 2
    /\ semantic_ids[2] = keyword_results.ids[2]
    /\ semantic_ids[1] \notin ids_of(keyword_results.ids)
    /\ keyword_results.ids[1] \notin ids_of(semantic_ids)

\* the ids of the fused candidates in the order hybrid_search first met them:
\* the semantic list, then the ids only the keyword query found
insertion_order ==
    semantic_ids \o SelectSeq(keyword_results.ids, LAMBDA id : id \notin ids_of(semantic_ids))

\* candidate a goes before candidate b: a higher combined score, or the same
\* score and met earlier
goes_before(a, b) ==
    LET sa == dict_get(result_scores, a).score
        sb == dict_get(result_scores, b).score
    IN  \/ RatLess(sb, sa)
        \/ sa = sb /\ position(insertion_order, a) < position(insertion_order, b)

\* C13: hybrid_search returns the fused candidates by non-increasing combined
\* score, candidates of equal score in the order they were first met
\* (semantic list first, then keyword-only ids in keyword order), cut to at
\* most n_results, and no id twice.
C13_Ranking ==
    (pc = "done" /\ mode = "hybrid_search") =>
        /\ Len(ret) = Min(n_results, Len(insertion_order))
        /\ \A p \in 1..Len(ret) : ret[p].id \in ids_of(insertion_order)
        /\ \A p, q \in 1..Len(ret) : p < q => goes_before(ret[p].id, ret[q].id)
        /\ \A p \in 1..Len(ret) :
              \A id \in ids_of(insertion_order) :
                  (\A q \in 1..Len(ret) : ret[q].id # id) => goes_before(ret[p].id, id)

\* three candidates were fused, two of them with the same score, a
\* keyword-only one among them, and the list was cut
C13_Witness ==
    /\ pc = "done"
    /\ mode = "hybrid_search"
    /\ Len(insertion_order) = 3
    /\ Len(ret) = 2
    /\ dict_get(result_scores, ret[1].id).score = dict_get(result_scores, ret[2].id).score
    /\ ret[2].id \notin ids_of(semantic_ids)

\* similarity is undefined: the key is missing or its value is None
no_similarity(c) == "similarity" \notin DOMAIN c \/ c.similarity = NoneValue

\* C19: every candidate search and hybrid_search return that has a distance
\* has similarity = 1 - distance, and has no similarity only when it has no
\* distance.
C19_Similarity ==
    (pc = "done" /\ mode \in {"search", "hybrid_search"}) =>
        \A p \in 1..Len(ret) :
            /\ ret[p].distance # NoneValue =>
                  /\ ~no_similarity(ret[p])
                  /\ ret[p].similarity = RatSub(One, ret[p].distance)
            /\ no_similarity(ret[p]) => ret[p].distance = NoneValue

(***************************************************************************)
(* Properties of retrieve.                                                 *)
(***************************************************************************)
RECURSIVE concat(_)
concat(lists) == IF lists = <<>> THEN <<>> ELSE Head(lists) \o concat(Tail(lists))

RECURSIVE sum_scores(_)
sum_scores(items) ==
    IF items = <<>> THEN Zero ELSE RatAdd(Head(items).score, sum_scores(Tail(items)))

\* the hybrid_search calls of this retrieve that returned the id
calls_returning(id) ==
    {c \in 1..Len(ranked_log) : \E i \in 1..Len(ranked_log[c]) : ranked_log[c][i].result.id = id}

\* the fused scores the id got in the lists hybrid_search returned, added up
accumulated_score(id) ==
    sum_scores(SelectSeq(concat(ranked_log), LAMBDA item : item.result.id = id))

\* C14 as stated: the scores an id got from the variants' lists are added up
\* and the sum decides its rank, so no candidate that several variants
\* returned stands behind a candidate of a lower accumulated score (both
\* candidates having a similarity).
C14_AccumulatedRank ==
    (pc = "done" /\ mode = "retrieve" /\ use_hybrid) =>
        \A p, q \in 1..Len(ret) :
            (/\ p < q
             /\ Cardinality(calls_returning(ret[q].id)) >= 2
             /\ ~no_similarity(ret[p])
             /\ ~no_similarity(ret[q]))
                => RatLeq(accumulated_score(ret[q].id), accumulated_score(ret[p].id))

\* C14 as the code has it: nothing is added up across variants.  Every
\* returned candidate is the dict one variant's search returned, without a
\* score, and the merged result is ordered by the similarity of these dicts.
C14_RankBySimilarity ==
    (pc = "done" /\ mode = "retrieve") =>
        /\ \A p \in 1..Len(ret) :
              /\ \E i \in 1..Len(all_results) : all_results[i] = ret[p]
              /\ "score" \notin DOMAIN ret[p]
        /\ \A p, q \in 1..Len(ret) :
              p < q => RatLeq(get_similarity(ret[q]), get_similarity(ret[p]))

\* two variants returned the second candidate, its scores add up to more
\* than the score of the first, and the first has the higher similarity
C14_Witness ==
    /\ pc = "done"
    /\ mode = "retrieve"
    /\ use_hybrid
    /\ Len(ret) = 2
    /\ Cardinality(calls_returning(ret[2].id)) = 2
    /\ RatLess(accumulated_score(ret[1].id), accumulated_score(ret[2].id))
    /\ ~no_similarity(ret[1])
    /\ ~no_similarity(ret[2])
    /\ RatLess(ret[2].similarity, ret[1].similarity)

\* C15: every candidate retrieve returns has a similarity, and it is at
\* least similarity_threshold; a similarity equal to the threshold passes.
C15_Threshold ==
    (pc = "done" /\ mode = "retrieve") =>
        \A p \in 1..Len(ret) :
            /\ ~no_similarity(ret[p])
            /\ RatLeq(similarity_threshold, ret[p].similarity)

\* the number of candidates retrieve returns for the deduplicated pool at
\* threshold t
count_at(t) == Len(sorted_results(filter_by_threshold(unique_results, t), limit_k))

\* C16: raising the threshold never adds candidates: for t1 <= t2 the
\* result at t2 is no longer than the result at t1, for filter_by_threshold
\* and for retrieve as a whole.
C16_Monotone ==
    (pc = "done" /\ mode = "retrieve") =>
        /\ Len(ret) = count_at(similarity_threshold)
        /\ \A t \in Thresholds :
              /\ RatLeq(similarity_threshold, t) => count_at(t) <= Len(ret)
              /\ RatLeq(t, similarity_threshold) => Len(ret) <= count_at(t)
        /\ \A t1, t2 \in Thresholds :
              RatLeq(t1, t2) =>
                  Len(filter_by_threshold(unique_results, t2))
                      <= Len(filter_by_threshold(unique_results, t1))

\* candidates were returned, and a higher threshold would have returned fewer
C16_Witness ==
    /\ pc = "done"
    /\ mode = "retrieve"
    /\ Len(ret) = 2
    /\ \E t \in Thresholds :
          /\ RatLess(similarity_threshold, t)
          /\ count_at(t) = 1

\* C17: retrieve returns its candidates by non-increasing similarity, at
\* most top_k of them for every top_k the caller gives and at most the
\* configured default when none is given, and they are the top_k of the
\* candidates left after deduplication and threshold.
C17_TopK ==
    (pc = "done" /\ mode = "retrieve") =>
        LET bound == IF top_k = NoInt THEN self_top_k ELSE top_k[1]
            survivors == filter_by_threshold(unique_results, similarity_threshold)
        IN  /\ \A p, q \in 1..Len(ret) :
                  p < q => RatLeq(get_similarity(ret[q]), get_similarity(ret[p]))
            /\ Len(ret) <= bound
            /\ Len(ret) = Min(bound, Len(survivors))
            /\ \A p \in 1..Len(ret) : \E i \in 1..Len(survivors) : survivors[i] = ret[p]
            /\ \A i \in 1..Len(survivors) :
                  (\A p \in 1..Len(ret) : ret[p] # survivors[i])
                      => \A p \in 1..Len(ret) :
                            RatLeq(get_similarity(survivors[i]), get_similarity(ret[p]))

\* the first of the pooled results that has the id of candidate c
first_instance(c) ==
    all_results[CHOOSE i \in 1..Len(all_results) :
                   /\ all_results[i].id = c.id
                   /\ \A j \in 1..(i - 1) : all_results[j].id # c.id]

\* C18 as stated: of the instances of an id that the variants returned with
\* a similarity, the returned candidate has the highest similarity.
C18_HighestInstance ==
    (pc = "done" /\ mode = "retrieve") =>
        \A p \in 1..Len(ret) :
            \A i \in 1..Len(all_results) :
                (all_results[i].id = ret[p].id /\ ~no_similarity(all_results[i])
                    /\ ~no_similarity(ret[p]))
                    => RatLeq(all_results[i].similarity, ret[p].similarity)

\* C18 as the code has it: the returned candidate is the first instance of
\* its id in the pooled results (variants in order, each list in its rank
\* order) and carries that instance's similarity.
C18_FirstInstance ==
    (pc = "done" /\ mode = "retrieve") =>
        \A p \in 1..Len(ret) :
            /\ ret[p] = first_instance(ret[p])
            /\ get_similarity(ret[p]) = get_similarity(first_instance(ret[p]))

\* a later variant returned the id again with a higher similarity than the
\* candidate that was returned for it
C18_Witness ==
    /\ pc = "done"
    /\ mode = "retrieve"
    /\ \E p \in 1..Len(ret) :
          \E i \in 1..Len(all_results) :
              /\ all_results[i].id = ret[p].id
              /\ ~no_similarity(all_results[i])
              /\ ~no_similarity(ret[p])
              /\ RatLess(ret[p].similarity, all_results[i].similarity)

\* C22: when the index call of one variant's search raises, retrieve does not
\* raise; the variant counts as an empty list and the result comes from the
\* other variants.
C22_SearchFailureIsolated ==
    mode = "retrieve" => pc # "raised"

\* no candidate of this retrieve call is at or above the threshold
no_survivor ==
    \A i \in 1..Len(all_results) :
        ~RatLeq(similarity_threshold, get_similarity(all_results[i]))

\* C24: when no candidate survives, retrieve returns the empty list, and
\* ask_question then returns citations = [] and num_sources = 0 in one step,
\* without the call of answer generation.
C24_NothingFound ==
    /\ []((pc = "done" /\ mode = "retrieve" /\ no_survivor) => ret = <<>>)
    /\ [][(pc = "done" /\ mode = "retrieve" /\ ret = <<>>) =>
              /\ pc' = "done"
              /\ mode' = "ask_question"
              /\ ret'.citations = <<>>
              /\ ret'.num_sources = 0
              /\ ret'.answer = NothingFound]_vars

C24_Witness ==
    /\ pc = "done" /\ mode = "ask_question"
    /\ all_results # <<>> /\ no_survivor
    /\ ret.citations = <<>> /\ ret.num_sources = 0
    /\ ret.answer = NothingFound

\* lines 98-109: the loop issues one search and waits for it
FanOut == 1

\* the searches of the running retrieve call that were issued and have not returned
outstanding ==
    IF mode = "retrieve" /\ pc \in {"search", "hybrid_search", "keyword_query", "score", "rank"}
    THEN 1
    ELSE 0

\* C26: within one retrieve call at most FanOut searches are outstanding; a
\* running search leaves the merged list and the lists of the later stages
\* alone; a result is merged only while no search is outstanding; and
\* deduplication (with filtering and sorting after it) starts only when every
\* variation's search has returned and been merged.
C26_FanIn ==
    /\ [](outstanding <= FanOut)
    /\ [][outstanding = 1 =>
              /\ all_results' = all_results
              /\ UNCHANGED dedup_vars]_vars
    /\ [][(mode = "retrieve" /\ all_results' # all_results) =>
              /\ outstanding = 0
              /\ pc = "extend"
              /\ all_results' = all_results \o ret
              /\ var_i' = var_i + 1]_vars
    /\ [][(mode = "retrieve" /\ pc # "for_result" /\ pc' = "for_result") =>
              /\ outstanding = 0
              /\ var_i = Len(query_variations) + 1
              /\ results' = all_results]_vars
    /\ [][(mode = "retrieve" /\ pc # "done" /\ pc' = "done") =>
              /\ pc = "for_result"
              /\ res_i > Len(results)]_vars

C26_Witness ==
    /\ mode = "retrieve" /\ pc = "for_result"
    /\ Len(query_variations) = 2
    /\ var_i = 3
    /\ res_i = 1
    /\ Len(results) >= 2
    /\ results = all_results

\* C27: in hybrid mode with a threshold above 0, a candidate hybrid_search
\* found through the keyword query only (it has no similarity) counts as
\* similarity 0 in the filter and is in no result of retrieve, whatever its
\* place in the fused ranking.
C27_KeywordOnlyDropped ==
    (pc = "done" /\ mode = "retrieve" /\ use_hybrid /\ RatLess(Zero, similarity_threshold)) =>
        /\ \A p \in 1..Len(ret) : "similarity" \in DOMAIN ret[p]
        /\ \A i \in 1..Len(all_results) :
              "similarity" \notin DOMAIN all_results[i] =>
                  /\ get_similarity(all_results[i]) = Zero
                  /\ \A p \in 1..Len(ret) : ret[p] # all_results[i]

\* the keyword-only candidate came first in the pooled results, and the
\* candidate pooled after it was returned
C27_Witness ==
    /\ pc = "done" /\ mode = "retrieve" /\ use_hybrid
    /\ RatLess(Zero, similarity_threshold)
    /\ Len(all_results) >= 2
    /\ "similarity" \notin DOMAIN all_results[1]
    /\ \A p \in 1..Len(ret) : ret[p].id # all_results[1].id
    /\ Len(ret) >= 1
    /\ ret[1] = all_results[2]

\* the pooled result at position i is the first with its passage
first_seen(i) ==
    \A j \in 1..(i - 1) :
        fingerprint(all_results[j].text) # fingerprint(all_results[i].text)

\* the result lists the hybrid_search calls of this retrieve returned
returned_lists ==
    [c \in 1..Len(ranked_log) |-> [p \in 1..Len(ranked_log[c]) |-> ranked_log[c][p].result]]

\* C28: retrieve pools the per-variant lists in variant order, keeps the first
\* instance of every passage, drops the instances below the threshold, sorts by
\* similarity and cuts to k.  A passage whose first instance is below the
\* threshold is absent from the result, also when a later variant returned it
\* with a similarity at or above the threshold.
C28_StageOrder ==
    (pc = "done" /\ mode = "retrieve") =>
        LET firsts == {i \in 1..Len(all_results) : first_seen(i)}
            passing == {i \in firsts :
                           RatLeq(similarity_threshold, get_similarity(all_results[i]))}
        IN  /\ use_hybrid => all_results = concat(returned_lists)
            /\ Len(ret) = Min(limit_k, Cardinality(passing))
            /\ \A p \in 1..Len(ret) : \E i \in passing : ret[p] = all_results[i]
            /\ \A p, q \in 1..Len(ret) :
                  p < q => /\ ret[p] # ret[q]
                           /\ RatLeq(get_similarity(ret[q]), get_similarity(ret[p]))
            /\ \A i \in firsts \ passing :
                  \A p \in 1..Len(ret) :
                      fingerprint(ret[p].text) # fingerprint(all_results[i].text)

\* the first instance of a passage is below the threshold, a later variant
\* returned the passage at or above it, and the passage is not in the result
C28_Witness ==
    /\ pc = "done" /\ mode = "retrieve"
    /\ Len(ret) >= 1
    /\ \E i, j \in 1..Len(all_results) :
          /\ i < j
          /\ first_seen(i)
          /\ all_results[j].text = all_results[i].text
          /\ ~RatLeq(similarity_threshold, get_similarity(all_results[i]))
          /\ "similarity" \in DOMAIN all_results[i]
          /\ RatLeq(similarity_threshold, get_similarity(all_results[j]))
          /\ \A p \in 1..Len(ret) : ret[p].text # all_results[i].text

(***************************************************************************)
(* Properties of the query expander.                                       *)
(***************************************************************************)
\* C20: expand_query returns a list that is not empty and starts with the
\* query as it was given; with expansion disabled, or when the generation
\* call raises, it returns exactly [query], and retrieve goes on to its
\* search loop with that one variant.
C20_Expansion ==
    /\ []((pc = "done" /\ mode = "expand_query") =>
            /\ Len(ret) >= 1
            /\ ret[1] = query
            /\ (~enabled \/ generation = Raised) => ret = <<query>>)
    /\ [][(mode = "retrieve" /\ pc \in {"expand_query", "generated"}
              /\ pc' # "generated") =>
            /\ pc' = "for_variation"
            /\ Len(query_variations') >= 1
            /\ query_variations'[1] = query
            /\ (~enabled \/ generation = Raised) => query_variations' = <<query>>]_vars

\* the generation call raised for a query that starts with a blank
C20_Witness ==
    /\ pc = "done"
    /\ mode = "expand_query"
    /\ enabled
    /\ generation = Raised
    /\ query = <<" ", "q">>
    /\ ret = <<query>>

\* the requested count brought into [min_variations, max_variations]; the
\* default request is max_variations
clamped_count ==
    LET requested == IF num_variations = NoInt THEN max_variations ELSE num_variations[1]
    IN  IF requested < min_variations THEN min_variations
        ELSE IF requested > max_variations THEN max_variations
        ELSE requested

\* C21: expand_query brings the requested number of variations into
\* [min_variations, max_variations], and the list it returns, the original
\* query included, has at most that many elements however many lines the
\* generation service sent.
C21_Clamp ==
    (pc = "done" /\ mode = "expand_query") =>
        /\ min_variations <= clamped_count
        /\ clamped_count <= max_variations
        /\ Len(ret) <= clamped_count

\* more was requested than max_variations allows, the service sent three
\* lines, and the list was cut to max_variations elements
C21_Witness ==
    /\ pc = "done"
    /\ mode = "expand_query"
    /\ num_variations # NoInt
    /\ num_variations[1] > max_variations
    /\ generation = [text |-> <<"a", "\n", "b", "\n", "c", "\n">>]
    /\ max_variations >= 2
    /\ Len(ret) = max_variations

(***************************************************************************)
(* Properties of the embedding generator.                                  *)
(***************************************************************************)
\* the vector the caller must get for the text at position i of list
expected_embedding(list, i) ==
    IF strip(list[i]) = <<>> \/ i \in failed
    THEN zeros(dimension)
    ELSE service_embedding(list[i], dimension)

\* C23: generate_embedding never raises: for an empty or blank text and when
\* the service call raises it returns dimension zeros, otherwise the vector of
\* the service; generate_embeddings_batch returns one vector per text, in the
\* order of the texts, whichever calls failed.
C23_ZeroVector ==
    /\ mode \in {"generate_embedding", "generate_embeddings_batch"} => pc # "raised"
    /\ (pc = "done" /\ mode = "generate_embedding") =>
           /\ Len(ret) = dimension
           /\ ret = expected_embedding(<<text>>, 1)
    /\ (pc = "done" /\ mode = "generate_embeddings_batch") =>
           /\ Len(ret) = Len(texts)
           /\ \A i \in 1..Len(texts) :
                /\ Len(ret[i]) = dimension
                /\ ret[i] = expected_embedding(texts, i)

C23_Witness ==
    /\ pc = "done" /\ mode = "generate_embeddings_batch"
    /\ batch_size = 2
    /\ texts = <<<<"a">>, <<"b">>, <<"a">>>>
    /\ failed = {2}
    /\ ret = <<service_embedding(<<"a">>, dimension), zeros(dimension),
               service_embedding(<<"a">>, dimension)>>

(***************************************************************************)
(* Properties of the pipeline.                                             *)
(***************************************************************************)
\* the positions of list, in order, whose item did not raise
kept(list) == SelectSeq([i \in 1..Len(list) |-> i], LAMBDA i : i \notin failed)

\* C25: process_multiple_pdfs returns one entry per path, in the order of the
\* paths; the entry of a document whose processing raised has an 'error'
\* field, every other entry is the statistics of its document, also after a
\* failure.  The directory sweeps of the extractor and of the chunker return
\* the results of the items that did not raise, in order.
C25_Isolation ==
    /\ (mode = "process_multiple_pdfs" /\ pc = "done") =>
           /\ Len(ret) = Len(pdf_paths)
           /\ \A i \in 1..Len(pdf_paths) :
                /\ ret[i].filename = name_of(pdf_paths[i])
                /\ ("error" \in DOMAIN ret[i]) <=> (i \in failed)
                /\ i \notin failed => ret[i] = stats(pdf_paths[i], doc_chunks(pdf_paths[i]))
    /\ (mode = "PDFExtractor.process_directory" /\ pc = "done") =>
           ret = [p \in 1..Len(kept(files)) |-> extraction_result(files[kept(files)[p]])]
    /\ (mode = "TextChunker.process_directory" /\ pc = "done") =>
           ret = concat([p \in 1..Len(kept(files)) |-> doc_chunks(files[kept(files)[p]])])

\* the first document raised, the second was processed and stored
C25_Witness ==
    /\ mode = "process_multiple_pdfs" /\ pc = "done"
    /\ Len(pdf_paths) = 2
    /\ failed = {1}
    /\ "error" \in DOMAIN ret[1]
    /\ ret[2].chunks = MaxDocChunks
    /\ Len(collection) >= MaxDocChunks

====
